---------------------------- MODULE Spec2Model ----------------------------
(***************************************************************************)
(* Model of the pod-monitor scrape-config generator of grafana agent:      *)
(*   component/prometheus/operator/podmonitors/config_gen.go   (pm)        *)
(*   component/discovery/kubernetes_crds/configGenerator.go    (crds)      *)
(*   component/common/config/kubernetes.go                                 *)
(* and of the remote-config fallback of agent management:                  *)
(*   pkg/config/agentmanagement.go                                         *)
(*                                                                         *)
(* Conventions.  A Go string is a TLA+ string, "" being the zero value.    *)
(* A Go pointer is a sequence of length at most one: Nil is <<>>, a        *)
(* pointer to x is <<x>>.  A label key that the code sanitizes is a        *)
(* sequence of one-character strings, so that sanitizeLabelName can be     *)
(* computed character by character as the regular expression does.         *)
(***************************************************************************)
EXTENDS Integers, Sequences, FiniteSets, TLC

VARIABLES
    args,      \* the client block handed to ClientArguments.UnmarshalRiver
    client,    \* configGenerator.config.Client, once accepted
    m,         \* the PodMonitor object
    ep,        \* the PodMetricsEndpoint object
    secretfs,  \* answers of the secret accessor (k8sfs.FS)
    given,     \* the monitor and endpoint as the caller handed them over
    pc,        \* "decode" | "ready" | "rejected"
    calls,     \* the generator calls made so far, each with its result
    gen,       \* the goroutines running generateK8SSDConfig concurrently
    rc,        \* getRemoteConfig: its provider, its position and its result
    fk         \* the fake client, its goroutine and the goroutines that use it

vars == <<args, client, m, ep, secretfs, given, pc, calls, gen, rc, fk>>

\* Bounds of the model.
MaxCalls == 2
MaxEndpoints == 2
NumGoroutines == 2
MaxLabelLen == 3
MaxRuns == 2
NumSenders == 2
NumStoppers == 2

Nil == <<>>
Ptr(x) == <<x>>

(***************************************************************************)
(* Strings and label names                                                 *)
(***************************************************************************)
RECURSIVE Str(_)
Str(s) == IF s = <<>> THEN "" ELSE Head(s) \o Str(Tail(s))

\* The characters invalidLabelCharRE leaves alone: [a-zA-Z0-9_].
LabelChars ==
    {"a", "b", "c", "d", "e", "f", "g", "h", "i", "j", "k", "l", "m",
     "n", "o", "p", "q", "r", "s", "t", "u", "v", "w", "x", "y", "z",
     "A", "B", "C", "D", "E", "F", "G", "H", "I", "J", "K", "L", "M",
     "N", "O", "P", "Q", "R", "S", "T", "U", "V", "W", "X", "Y", "Z",
     "0", "1", "2", "3", "4", "5", "6", "7", "8", "9", "_"}

sanitizeLabelNameIdentity(name) == name

\* invalidLabelCharRE.ReplaceAllString(name, "_")
sanitizeLabelName(name) ==
    [k \in DOMAIN name |-> IF name[k] \in LabelChars THEN name[k] ELSE "_"]

(***************************************************************************)
(* relabel.Config and the relabeler                                        *)
(***************************************************************************)
NilRegexp == ""

\* The zero value &relabel.Config{}.
RelabelConfig0 ==
    [SourceLabels |-> <<>>, Separator |-> "", TargetLabel |-> "",
     Regex |-> NilRegexp, Modulus |-> 0, Replacement |-> "", Action |-> ""]

\* relabel.DefaultRelabelConfig of the prometheus library.
DefaultRelabelConfig ==
    [Action |-> "replace", Separator |-> ";", Regex |-> "(.*)", Replacement |-> "$1"]

\* Patterns regexp.Compile rejects, among those the model uses.
InvalidRegexps == {"("}

\* relabel.NewRegexp(s): the compiled expression, or an error.
NewRegexp(s) ==
    IF s \in InvalidRegexps
    THEN [Regexp |-> NilRegexp, err |-> "error parsing regexp"]
    ELSE [Regexp |-> s, err |-> ""]

\* The body of the loop of relabeler.Add: the defaults set on one rule.
setDefaults(cfg) ==
    [cfg EXCEPT
        !.Action = IF @ = "" THEN DefaultRelabelConfig.Action ELSE @,
        !.Separator = IF @ = "" THEN DefaultRelabelConfig.Separator ELSE @,
        !.Regex = IF @ = NilRegexp THEN DefaultRelabelConfig.Regex ELSE @,
        !.Replacement = IF @ = "" THEN DefaultRelabelConfig.Replacement ELSE @]

RECURSIVE AddNoDefaults(_, _)
AddNoDefaults(configs, cfgs) ==
    IF cfgs = <<>> THEN configs
    ELSE AddNoDefaults(Append(configs, Head(cfgs)), Tail(cfgs))

\* relabeler.Add(cfgs...): r.configs afterwards.
RECURSIVE Add(_, _)
Add(configs, cfgs) ==
    IF cfgs = <<>> THEN configs
    ELSE Add(Append(configs, setDefaults(Head(cfgs))), Tail(cfgs))

\* The conversion of one monitoringv1.RelabelConfig in relabeler.addFromV1:
\* the rule built before it is appended, and the error of its regex.
convertV1(c) ==
    LET re == IF c.Regex # "" THEN NewRegexp(c.Regex)
              ELSE [Regexp |-> NilRegexp, err |-> ""]
    IN [cfg |-> [SourceLabels |-> c.SourceLabels,
                 Separator |-> c.Separator,
                 TargetLabel |-> c.TargetLabel,
                 Regex |-> re.Regexp,
                 Modulus |-> c.Modulus,
                 Replacement |-> c.Replacement,
                 Action |-> c.Action],
        err |-> re.err]

\* addFromV1 putting each converted rule in front of the list.
RECURSIVE addFromV1Prepending(_, _)
addFromV1Prepending(configs, cfgs) ==
    IF cfgs = <<>> THEN [configs |-> configs, err |-> ""]
    ELSE LET c == convertV1(Head(cfgs))
         IN IF c.err # "" THEN [configs |-> configs, err |-> c.err]
            ELSE addFromV1Prepending(<<c.cfg>> \o configs, Tail(cfgs))

\* addFromV1 that drops a rule whose regex does not parse and goes on.
RECURSIVE addFromV1SkippingBad(_, _)
addFromV1SkippingBad(configs, cfgs) ==
    IF cfgs = <<>> THEN [configs |-> configs, err |-> ""]
    ELSE LET c == convertV1(Head(cfgs))
         IN IF c.err # "" THEN addFromV1SkippingBad(configs, Tail(cfgs))
            ELSE addFromV1SkippingBad(Append(configs, c.cfg), Tail(cfgs))

\* relabeler.addFromV1(cfgs...): r.configs afterwards and the error returned.
\* The converted rule is appended as it is: Add is not called on it.
RECURSIVE addFromV1(_, _)
addFromV1(configs, cfgs) ==
    IF cfgs = <<>> THEN [configs |-> configs, err |-> ""]
    ELSE LET c == convertV1(Head(cfgs))
         IN IF c.err # "" THEN [configs |-> configs, err |-> c.err]
            ELSE addFromV1(Append(configs, c.cfg), Tail(cfgs))

\* parseRegexp of the crds generator: the error is logged and the zero
\* Regexp that relabel.NewRegexp returns with it is handed back.
parseRegexp(s) == NewRegexp(s).Regexp

\* relabeler.addFromV1(cfgs...) of the crds generator: r.configs afterwards.
\* Nothing is returned.
RECURSIVE addFromV1Crds(_, _)
addFromV1Crds(configs, cfgs) ==
    IF cfgs = <<>> THEN configs
    ELSE LET c == Head(cfgs)
             cfg == [SourceLabels |-> c.SourceLabels,
                     Separator |-> c.Separator,
                     TargetLabel |-> c.TargetLabel,
                     Regex |-> IF c.Regex # "" THEN parseRegexp(c.Regex) ELSE NilRegexp,
                     Modulus |-> c.Modulus,
                     Replacement |-> c.Replacement,
                     Action |-> c.Action]
         IN addFromV1Crds(Append(configs, cfg), Tail(cfgs))

initRelabelingsNoTarget ==
    Add(<<>>, <<[RelabelConfig0 EXCEPT !.SourceLabels = <<"job">>]>>)

\* configGenerator.initRelabelings(): the relabeler's configs.
initRelabelings ==
    Add(<<>>, <<[RelabelConfig0 EXCEPT !.SourceLabels = <<"job">>,
                                       !.TargetLabel = "__tmp_prometheus_job_name"]>>)

(***************************************************************************)
(* Namespaces and the service-discovery config                             *)
(***************************************************************************)
getNamespacesIgnoringAny(nsel, namespace) ==
    IF Len(nsel.MatchNames) = 0 THEN <<namespace>> ELSE nsel.MatchNames

\* configGenerator.getNamespacesFromNamespaceSelector
getNamespacesFromNamespaceSelector(nsel, namespace) ==
    IF nsel.Any THEN <<>>
    ELSE IF Len(nsel.MatchNames) = 0 THEN <<namespace>>
    ELSE nsel.MatchNames

\* promk8s.RolePod
RolePod == "pod"

\* The zero value commonConfig.TLSConfig{}.
TLSConfig0 ==
    [CAFile |-> "", CertFile |-> "", KeyFile |-> "", ServerName |-> "",
     InsecureSkipVerify |-> FALSE]

\* The zero value of the HTTP client config of a promk8s.SDConfig.
SDHTTPClientConfig0 ==
    [BasicAuth |-> Nil, BearerToken |-> "", BearerTokenFile |-> "",
     TLSConfig |-> TLSConfig0, Authorization |-> Nil]

\* Authorization.Convert(): the prometheus form of an authorization block.
ConvertAuthorization(a) ==
    [Type |-> a.Type, Credentials |-> a.Credentials]

\* The Authorization block of the shared client settings after
\* generateK8SSDConfig: hCfg is a copy of the struct, hCfg.Authorization is
\* the same pointer, and an empty Type is written through it.
authorizationAfterSD(cl) ==
    IF cl.APIServer # Nil /\ cl.Authorization # Nil /\ cl.Authorization[1].Type = ""
    THEN Ptr([cl.Authorization[1] EXCEPT !.Type = "Bearer"])
    ELSE cl.Authorization

clientAfterSD(cl) == [cl EXCEPT !.Authorization = authorizationAfterSD(cl)]

generateK8SSDConfigNoKubeConfig(cl, namespaceSelector, namespace, role, attachMetadata) ==
    [Role |-> role,
     Names |-> getNamespacesFromNamespaceSelector(namespaceSelector, namespace),
     KubeConfig |-> "",
     APIServer |-> cl.APIServer,
     HTTPClientConfig |->
         IF cl.APIServer # Nil
         THEN [BasicAuth |-> cl.BasicAuth,
               BearerToken |-> cl.BearerToken,
               BearerTokenFile |-> cl.BearerTokenFile,
               TLSConfig |-> cl.TLSConfig,
               Authorization |->
                   IF clientAfterSD(cl).Authorization # Nil
                   THEN Ptr(ConvertAuthorization(clientAfterSD(cl).Authorization[1]))
                   ELSE Nil]
         ELSE SDHTTPClientConfig0,
     AttachMetadataNode |-> IF attachMetadata # Nil THEN attachMetadata[1].Node ELSE FALSE]

\* configGenerator.generateK8SSDConfig: the *promk8s.SDConfig returned.
generateK8SSDConfig(cl, namespaceSelector, namespace, role, attachMetadata) ==
    LET namespaces == getNamespacesFromNamespaceSelector(namespaceSelector, namespace)
        after == clientAfterSD(cl)
    IN [Role |-> role,
        Names |-> IF Len(namespaces) # 0 THEN namespaces ELSE <<>>,
        KubeConfig |-> IF cl.KubeConfig # "" THEN cl.KubeConfig ELSE "",
        APIServer |-> IF cl.APIServer # Nil THEN cl.APIServer ELSE Nil,
        HTTPClientConfig |->
            IF cl.APIServer # Nil
            THEN [BasicAuth |-> cl.BasicAuth,
                  BearerToken |-> cl.BearerToken,
                  BearerTokenFile |-> cl.BearerTokenFile,
                  TLSConfig |-> cl.TLSConfig,
                  Authorization |->
                      IF after.Authorization # Nil
                      THEN Ptr(ConvertAuthorization(after.Authorization[1]))
                      ELSE Nil]
            ELSE SDHTTPClientConfig0,
        AttachMetadataNode |-> IF attachMetadata # Nil THEN attachMetadata[1].Node ELSE FALSE]

(***************************************************************************)
(* The auth builders of the pm generator                                   *)
(***************************************************************************)
\* GenerateSafeTLS without the check of the client key.
GenerateSafeTLSIgnoringKey(namespace, tls) ==
    LET tc == [TLSConfig0 EXCEPT !.InsecureSkipVerify = tls.InsecureSkipVerify]
    IN IF tls.CA.Secret # Nil \/ tls.CA.ConfigMap # Nil
       THEN [tc |-> tc, err |-> "loading ca certs no supported yet"]
       ELSE IF tls.Cert.Secret # Nil \/ tls.Cert.ConfigMap # Nil
       THEN [tc |-> tc, err |-> "loading tls certs no supported yet"]
       ELSE [tc |-> [tc EXCEPT !.ServerName = tls.ServerName], err |-> ""]

\* configGenerator.GenerateSafeTLS
GenerateSafeTLS(namespace, tls) ==
    LET tc == [TLSConfig0 EXCEPT !.InsecureSkipVerify = tls.InsecureSkipVerify]
    IN IF tls.CA.Secret # Nil \/ tls.CA.ConfigMap # Nil
       THEN [tc |-> tc, err |-> "loading ca certs no supported yet"]
       ELSE IF tls.Cert.Secret # Nil \/ tls.Cert.ConfigMap # Nil
       THEN [tc |-> tc, err |-> "loading tls certs no supported yet"]
       ELSE IF tls.KeySecret # Nil
       THEN [tc |-> tc, err |-> "loading tls certs no supported yet"]
       ELSE [tc |-> [tc EXCEPT !.ServerName = tls.ServerName], err |-> ""]

\* configGenerator.GenerateOAuth2
GenerateOAuth2(oauth2, namespace) ==
    IF oauth2 = Nil THEN [oa2 |-> Nil, err |-> ""]
    ELSE [oa2 |-> Nil, err |-> "oauth2 not supported yet"]

\* configGenerator.GenerateSafeAuthorization
GenerateSafeAuthorization(auth, ns) ==
    IF auth = Nil THEN [az |-> Nil, err |-> ""]
    ELSE [az |-> Nil, err |-> "authorization not supported yet"]

(***************************************************************************)
(* The auth builders of the crds generator                                 *)
(***************************************************************************)
\* k8sfs.SecretFilename / k8sfs.ConfigMapFilename: a path computed from
\* (namespace, kind, name, key); storage is not read.
SecretFilename(ns, name, key) == "secrets/" \o ns \o "/" \o name \o "/" \o key
ConfigMapFilename(ns, name, key) == "configMaps/" \o ns \o "/" \o name \o "/" \o key

\* k8sfs.FS.ReadSecret / ReadConfigMap: what the accessor answers.
ReadSecret(fs, ns, name, key) == fs.secret
ReadConfigMap(fs, ns, name, key) == fs.configMap

\* strings.TrimSpace on the authorization types of the model.
TrimSpace(s) == IF s = " Basic " THEN "Basic" ELSE s

\* generateSafeTLS with the CA read from the store instead of named by path.
generateSafeTLSInline(namespace, tls) ==
    [InsecureSkipVerify |-> tls.InsecureSkipVerify,
     CAFile |-> IF tls.CA.Secret # Nil THEN "client-id"
                ELSE IF tls.CA.ConfigMap # Nil THEN "client-id-cm"
                ELSE "",
     CertFile |-> "",
     KeyFile |-> "",
     ServerName |-> tls.ServerName]

\* configGenerator.generateSafeTLS (crds): the commonConfig.TLSConfig returned.
generateSafeTLS(namespace, tls) ==
    [InsecureSkipVerify |-> tls.InsecureSkipVerify,
     CAFile |-> IF tls.CA.Secret # Nil
                THEN SecretFilename(namespace, tls.CA.Secret[1].Name, tls.CA.Secret[1].Key)
                ELSE IF tls.CA.ConfigMap # Nil
                THEN ConfigMapFilename(namespace, tls.CA.ConfigMap[1].Name, tls.CA.ConfigMap[1].Key)
                ELSE "",
     CertFile |-> IF tls.Cert.Secret # Nil
                  THEN SecretFilename(namespace, tls.Cert.Secret[1].Name, tls.Cert.Secret[1].Key)
                  ELSE IF tls.Cert.ConfigMap # Nil
                  THEN ConfigMapFilename(namespace, tls.Cert.ConfigMap[1].Name, tls.Cert.ConfigMap[1].Key)
                  ELSE "",
     KeyFile |-> IF tls.KeySecret # Nil
                 THEN SecretFilename(namespace, tls.KeySecret[1].Name, tls.KeySecret[1].Key)
                 ELSE "",
     ServerName |-> IF tls.ServerName # "" THEN tls.ServerName ELSE ""]

\* configGenerator.generateOAuth2 (crds): the *commonConfig.OAuth2 returned.
\* A failed fetch is logged and the build goes on.
generateOAuth2(fs, oauth2, ns) ==
    IF oauth2 = Nil THEN Nil
    ELSE LET o == oauth2[1]
             got == IF o.ClientID.Secret # Nil
                    THEN ReadSecret(fs, ns, o.ClientID.Secret[1].Name, o.ClientID.Secret[1].Key)
                    ELSE IF o.ClientID.ConfigMap # Nil
                    THEN ReadConfigMap(fs, ns, o.ClientID.ConfigMap[1].Name, o.ClientID.ConfigMap[1].Key)
                    ELSE [val |-> "", err |-> ""]
         IN Ptr([ClientID |-> got.val,
                 ClientSecretFile |-> SecretFilename(ns, o.ClientSecret.Name, o.ClientSecret.Key),
                 TokenURL |-> o.TokenURL,
                 Scopes |-> o.Scopes,
                 EndpointParams |-> o.EndpointParams])

\* The endpoint's authorization block after generateSafeAuthorization
\* (crds): an empty Type is written into the caller's object.
authAfterSafeAuthorization(auth) ==
    IF auth # Nil /\ auth[1].Type = ""
    THEN Ptr([auth[1] EXCEPT !.Type = "Bearer"])
    ELSE auth

\* configGenerator.generateSafeAuthorization (crds): the value returned.
generateSafeAuthorization(auth, ns) ==
    IF auth = Nil THEN Nil
    ELSE LET a == authAfterSafeAuthorization(auth)[1]
         IN Ptr([Type |-> TrimSpace(a.Type),
                 CredentialsFile |->
                     IF a.Credentials # Nil
                     THEN SecretFilename(ns, a.Credentials[1].Name, a.Credentials[1].Key)
                     ELSE ""])


(***************************************************************************)
(* The relabel pipeline compiler and the scrape-config assembler           *)
(* (generatePodMonitorConfig)                                              *)
(***************************************************************************)
RECURSIVE JoinAlt(_)
JoinAlt(values) ==
    IF values = <<>> THEN ""
    ELSE IF Len(values) = 1 THEN values[1]
    ELSE values[1] \o "|" \o JoinAlt(Tail(values))

\* The meta-labels of a pod label key.
podLabel(k) == "__meta_kubernetes_pod_label_" \o Str(sanitizeLabelName(k))
podLabelPresent(k) == "__meta_kubernetes_pod_labelpresent_" \o Str(sanitizeLabelName(k))

\* Step 3, match-labels: one keep rule for the match-label k = v.
matchLabelRule(k, v) ==
    [RelabelConfig0 EXCEPT
        !.Action = "keep",
        !.SourceLabels = <<podLabel(k), podLabelPresent(k)>>,
        !.Regex = NewRegexp("(" \o v \o ");true").Regexp]

\* Step 3, match-expressions: In and Exists keep, NotIn and DoesNotExist drop.
matchExpressionRule(e) ==
    IF e.Operator \in {"In", "NotIn"}
    THEN [RelabelConfig0 EXCEPT
            !.Action = IF e.Operator = "In" THEN "keep" ELSE "drop",
            !.SourceLabels = <<podLabel(e.Key), podLabelPresent(e.Key)>>,
            !.Regex = NewRegexp("(" \o JoinAlt(e.Values) \o ");true").Regexp]
    ELSE [RelabelConfig0 EXCEPT
            !.Action = IF e.Operator = "Exists" THEN "keep" ELSE "drop",
            !.SourceLabels = <<podLabelPresent(e.Key)>>,
            !.Regex = NewRegexp("true").Regexp]

\* Step 4: the keep rule of the endpoint's port, named or numeric.
portRule(e) ==
    IF e.Port # ""
    THEN [RelabelConfig0 EXCEPT
            !.Action = "keep",
            !.SourceLabels = <<"__meta_kubernetes_pod_container_port_name">>,
            !.Regex = NewRegexp(e.Port).Regexp]
    ELSE [RelabelConfig0 EXCEPT
            !.Action = "keep",
            !.SourceLabels = <<"__meta_kubernetes_pod_container_port_number">>,
            !.Regex = NewRegexp(ToString(e.TargetPort[1])).Regexp]

\* The endpoint's port name, or its port number as a string.
portString(e) == IF e.Port # "" THEN e.Port ELSE ToString(e.TargetPort[1])

\* Steps 6 and 8: a pod label copied to a target label when it is not empty.
podLabelCopyRule(k, target) ==
    [RelabelConfig0 EXCEPT
        !.SourceLabels = <<podLabel(k)>>,
        !.TargetLabel = target,
        !.Regex = NewRegexp("(.+)").Regexp,
        !.Replacement = "${1}"]

\* Steps 1 to 8 of the primary chain; order is the order in which the
\* match-labels map is walked.
implicitRelabelings(mon, e, order) ==
    LET r1 == initRelabelings
        r2 == Add(r1, <<[RelabelConfig0 EXCEPT
                            !.SourceLabels = <<"__meta_kubernetes_pod_phase">>,
                            !.Regex = NewRegexp("(Failed|Succeeded)").Regexp,
                            !.Action = "drop"]>>)
        r3a == Add(r2, [k \in 1..Len(order) |->
                            matchLabelRule(order[k], mon.Selector.MatchLabels[order[k]])])
        r3 == Add(r3a, [k \in 1..Len(mon.Selector.MatchExpressions) |->
                            matchExpressionRule(mon.Selector.MatchExpressions[k])])
        r4 == Add(r3, <<portRule(e)>>)
        r5 == Add(r4, <<[RelabelConfig0 EXCEPT
                            !.SourceLabels = <<"__meta_kubernetes_namespace">>,
                            !.TargetLabel = "namespace"],
                        [RelabelConfig0 EXCEPT
                            !.SourceLabels = <<"__meta_kubernetes_pod_container_name">>,
                            !.TargetLabel = "container"],
                        [RelabelConfig0 EXCEPT
                            !.SourceLabels = <<"__meta_kubernetes_pod_name">>,
                            !.TargetLabel = "pod"]>>)
        r6 == Add(r5, [k \in 1..Len(mon.PodTargetLabels) |->
                            podLabelCopyRule(mon.PodTargetLabels[k],
                                             Str(sanitizeLabelName(mon.PodTargetLabels[k])))])
        r7 == Add(r6, <<[RelabelConfig0 EXCEPT
                            !.TargetLabel = "job",
                            !.Replacement = mon.Namespace \o "/" \o mon.Name]>>)
    IN IF mon.JobLabel # <<>>
       THEN Add(r7, <<podLabelCopyRule(mon.JobLabel, "job")>>)
       ELSE r7

\* Steps 9 and 10: the explicit rules, then the endpoint rule.
podRelabelings(mon, e, order) ==
    LET r9 == addFromV1(implicitRelabelings(mon, e, order), e.RelabelConfigs)
    IN IF r9.err # "" THEN r9
       ELSE [configs |-> Add(r9.configs, <<[RelabelConfig0 EXCEPT
                                               !.TargetLabel = "endpoint",
                                               !.Replacement = portString(e)]>>),
             err |-> ""]

\* model.ParseDuration on the durations of the model, in seconds.
ParseDuration(d) ==
    CASE d = "5s" -> 5
      [] d = "10s" -> 10
      [] d = "30s" -> 30
      [] d = "1m" -> 60

DefaultScrapeConfigShortInterval ==
    [HonorTimestamps |-> TRUE, ScrapeInterval |-> 30, ScrapeTimeout |-> 10,
     MetricsPath |-> "/metrics", Scheme |-> "http",
     FollowRedirects |-> TRUE, EnableHTTP2 |-> TRUE]

\* The fields of the scrape config of an endpoint that sets none of them, as
\* TestGeneratePodMonitorConfig expects them; durations in seconds.
DefaultScrapeConfig ==
    [HonorTimestamps |-> TRUE, ScrapeInterval |-> 60, ScrapeTimeout |-> 10,
     MetricsPath |-> "/metrics", Scheme |-> "http",
     FollowRedirects |-> TRUE, EnableHTTP2 |-> TRUE]

jobNameNoIndex(mon, i) ==
    "podMonitor/" \o mon.Namespace \o "/" \o mon.Name

\* cfg.JobName, as TestGeneratePodMonitorConfig expects it.
jobName(mon, i) ==
    "podMonitor/" \o mon.Namespace \o "/" \o mon.Name \o "/" \o ToString(i)

\* generatePodMonitorConfig(m, ep, i) of the pm generator: the scrape config
\* (Nil on error) and the error.
generatePodMonitorConfig(cl, mon, e, i, order) ==
    LET relabels == podRelabelings(mon, e, order)
        metricRelabels == addFromV1(<<>>, e.MetricRelabelConfigs)
        sd == generateK8SSDConfig(cl, mon.NamespaceSelector, mon.Namespace,
                                  RolePod, mon.AttachMetadata)
        tls == IF e.TLSConfig # Nil THEN GenerateSafeTLS(mon.Namespace, e.TLSConfig[1])
               ELSE [tc |-> TLSConfig0, err |-> ""]
        oa2 == GenerateOAuth2(e.OAuth2, mon.Namespace)
        az == GenerateSafeAuthorization(e.Authorization, mon.Namespace)
        err == IF relabels.err # "" THEN relabels.err
               ELSE IF metricRelabels.err # "" THEN metricRelabels.err
               ELSE IF tls.err # "" THEN tls.err
               ELSE IF oa2.err # "" THEN oa2.err
               ELSE az.err
    IN IF err # "" THEN [cfg |-> Nil, err |-> err]
       ELSE [cfg |-> Ptr([JobName |-> jobName(mon, i),
                          HonorTimestamps |-> DefaultScrapeConfig.HonorTimestamps,
                          ScrapeInterval |->
                              IF e.Interval # "" THEN ParseDuration(e.Interval)
                              ELSE DefaultScrapeConfig.ScrapeInterval,
                          ScrapeTimeout |->
                              IF e.ScrapeTimeout # "" THEN ParseDuration(e.ScrapeTimeout)
                              ELSE DefaultScrapeConfig.ScrapeTimeout,
                          MetricsPath |->
                              IF e.Path # "" THEN e.Path ELSE DefaultScrapeConfig.MetricsPath,
                          Scheme |->
                              IF e.Scheme # "" THEN e.Scheme ELSE DefaultScrapeConfig.Scheme,
                          RelabelConfigs |-> relabels.configs,
                          MetricRelabelConfigs |-> metricRelabels.configs,
                          ServiceDiscoveryConfigs |-> <<sd>>,
                          HTTPClientConfig |->
                              [FollowRedirects |-> DefaultScrapeConfig.FollowRedirects,
                               EnableHTTP2 |->
                                   IF e.EnableHttp2 # Nil THEN e.EnableHttp2[1]
                                   ELSE DefaultScrapeConfig.EnableHTTP2,
                               TLSConfig |-> tls.tc, OAuth2 |-> oa2.oa2,
                               Authorization |-> az.az]]),
             err |-> ""]

\* The assembler over the endpoints of one monitor: the ordered scrape
\* configs, one per endpoint, or the first error and no config at all.
compileMonitor(cl, mon, eps, order) ==
    LET results == [i \in 1..Len(eps) |->
                        generatePodMonitorConfig(cl, mon, eps[i], i - 1, order)]
        failed == {i \in 1..Len(eps) : results[i].err # ""}
    IN IF failed # {}
       THEN [cfgs |-> <<>>,
             err |-> results[CHOOSE i \in failed : \A j \in failed : i <= j].err]
       ELSE [cfgs |-> [i \in 1..Len(eps) |-> results[i].cfg[1]], err |-> ""]

\* The client settings after generatePodMonitorConfig: the service-discovery
\* config is built once the two chains are, whatever the auth builders return.
clientAfterCompile(cl, e) ==
    IF addFromV1(<<>>, e.RelabelConfigs).err # ""
       \/ addFromV1(<<>>, e.MetricRelabelConfigs).err # ""
    THEN cl
    ELSE clientAfterSD(cl)


(***************************************************************************)
(* ClientArguments                                                         *)
(***************************************************************************)
\* The squashed HTTPClientConfig of a ClientArguments value.
httpClientConfigOf(a) ==
    [BasicAuth |-> a.BasicAuth, BearerToken |-> a.BearerToken,
     BearerTokenFile |-> a.BearerTokenFile, TLSConfig |-> a.TLSConfig,
     Authorization |-> a.Authorization]

\* config.DefaultHTTPClientConfig, as far as the generator reads it.
DefaultHTTPClientConfig == SDHTTPClientConfig0

\* DefaultArguments.Client
DefaultClientArguments ==
    [APIServer |-> Nil, KubeConfig |-> "",
     BasicAuth |-> Nil, BearerToken |-> "", BearerTokenFile |-> "",
     TLSConfig |-> TLSConfig0, Authorization |-> Nil]

\* What HTTPClientConfig.Validate() may answer: nothing is wrong with the
\* default configuration; a custom one is accepted or refused.
ValidateAnswers(a) ==
    IF httpClientConfigOf(a) = DefaultHTTPClientConfig THEN {""}
    ELSE {"", "invalid http client config"}

\* UnmarshalRiver without the check of line 29.
UnmarshalRiverNoExclusion(a, decodeErr, validateErr) ==
    IF decodeErr # "" THEN decodeErr
    ELSE IF a.KubeConfig # "" /\ httpClientConfigOf(a) # DefaultHTTPClientConfig
    THEN "custom HTTP client configuration is not allowed when kubeconfig_file is set"
    ELSE IF a.APIServer = Nil /\ httpClientConfigOf(a) # DefaultHTTPClientConfig
    THEN "api_server must be set when custom HTTP client configuration is provided"
    ELSE validateErr

\* ClientArguments.UnmarshalRiver: the error returned for the block a, where
\* decodeErr is what decoding the block answers and validateErr what
\* HTTPClientConfig.Validate() answers.
UnmarshalRiver(a, decodeErr, validateErr) ==
    IF decodeErr # "" THEN decodeErr
    ELSE IF a.APIServer # Nil /\ a.KubeConfig # ""
    THEN "only one of api_server and kubeconfig_file can be set"
    ELSE IF a.KubeConfig # "" /\ httpClientConfigOf(a) # DefaultHTTPClientConfig
    THEN "custom HTTP client configuration is not allowed when kubeconfig_file is set"
    ELSE IF a.APIServer = Nil /\ httpClientConfigOf(a) # DefaultHTTPClientConfig
    THEN "api_server must be set when custom HTTP client configuration is provided"
    ELSE validateErr

\* What decoding the block into the struct may answer.
DecodeAnswers == {"", "decode error"}

(***************************************************************************)
(* Agent management: the remote config and its cache                       *)
(***************************************************************************)
\* Durations time.ParseDuration accepts, among those of the model.
ValidDurations == {"5s", "10s", "30s", "1m"}

\* AgentManagement.Validate: the error returned.
AgentManagementValidate(am) ==
    IF am.Username = "" \/ am.PasswordFile = ""
    THEN "both username and password_file fields must be specified"
    ELSE IF am.PollingInterval \notin ValidDurations
    THEN "error trying to parse polling interval"
    ELSE IF am.Namespace = ""
    THEN "namespace must be specified in 'remote_configuration' block of the config"
    ELSE IF am.CacheLocation = ""
    THEN "path to cache must be specified in 'agent_management.remote_config_cache_location'"
    ELSE ""

\* Config documents: two that load and validate, one that loads with two
\* scrape jobs of the same name, one that does not load.
B_info == "server: {log_level: info}"
B_debug == "server: {log_level: debug}"
B_dup == "metrics: {configs: [{scrape_configs: [{job_name: agent-metrics}, {job_name: agent-metrics}]}]}"
B_broken == "completely invalid config"

\* The zero remote Config, as far as the model reads it.
Config0 == [LogLevel |-> "info", JobNames |-> <<>>]

\* LoadBytes(buf, expandEnvVars, &cfg): the config loaded, and the error.
LoadBytes(buf) ==
    CASE buf = B_info -> [cfg |-> Config0, err |-> ""]
      [] buf = B_debug -> [cfg |-> [Config0 EXCEPT !.LogLevel = "debug"], err |-> ""]
      [] buf = B_dup ->
            [cfg |-> [Config0 EXCEPT !.JobNames = <<"agent-metrics", "agent-metrics">>],
             err |-> ""]
      [] OTHER -> [cfg |-> Config0, err |-> "cannot unmarshal"]

\* Config.Validate(nil): two jobs of one name are refused.
ConfigValidate(cfg) ==
    IF \E a, b \in 1..Len(cfg.JobNames) : a # b /\ cfg.JobNames[a] = cfg.JobNames[b]
    THEN "found multiple scrape configs with the same job name"
    ELSE ""

\* remoteConfigHTTPProvider.GetCachedRemoteConfig: LoadFile on the cache
\* file, which may be missing.
GetCachedRemoteConfig(cacheFile) ==
    IF cacheFile = Nil \/ LoadBytes(cacheFile[1]).err # ""
    THEN [cfg |-> Nil, err |-> "error trying to load cached remote config from file"]
    ELSE [cfg |-> Ptr(LoadBytes(cacheFile[1]).cfg), err |-> ""]

\* getRemoteConfig caching the fetched bytes although they did not load.
getRemoteConfigNextCachingUnloaded(at, err) ==
    CASE at = "validate" -> IF err # "" THEN "done" ELSE "fetch"
      [] at = "fetch" -> IF err # "" THEN "fallback" ELSE "load"
      [] at = "load" -> IF err # "" THEN "cache" ELSE "check"
      [] at = "check" -> IF err # "" THEN "fallback" ELSE "cache"
      [] at = "cache" -> "done"
      [] at = "fallback" -> "done"

\* getRemoteConfig without its fallback on an invalid remote config.
getRemoteConfigNextUnchecked(at, err) ==
    CASE at = "validate" -> IF err # "" THEN "done" ELSE "fetch"
      [] at = "fetch" -> IF err # "" THEN "fallback" ELSE "load"
      [] at = "load" -> IF err # "" THEN "fallback" ELSE "check"
      [] at = "check" -> "cache"
      [] at = "cache" -> "done"
      [] at = "fallback" -> "done"

\* getRemoteConfig: where it goes after the step at `at` answered err.  The
\* error of CacheRemoteConfig is logged and nothing else.
getRemoteConfigNext(at, err) ==
    CASE at = "validate" -> IF err # "" THEN "done" ELSE "fetch"
      [] at = "fetch" -> IF err # "" THEN "fallback" ELSE "load"
      [] at = "load" -> IF err # "" THEN "fallback" ELSE "check"
      [] at = "check" -> IF err # "" THEN "fallback" ELSE "cache"
      [] at = "cache" -> "done"
      [] at = "fallback" -> "done"

AgentManagement0 ==
    [Username |-> "test", PasswordFile |-> "/test/path",
     PollingInterval |-> "1m", Namespace |-> "test_namespace",
     CacheLocation |-> "/test/path/"]

NoFetch == [bytes |-> "", err |-> ""]
NoReturn == [cfg |-> Nil, err |-> ""]

\* getRemoteConfig not running.
RemoteIdle ==
    [pc |-> "idle", am |-> AgentManagement0, cacheFile |-> Nil, fetched |-> NoFetch,
     remoteConfig |-> Config0, ret |-> NoReturn, writes |-> <<>>, runs |-> 0]

(***************************************************************************)
(* The fake client (package fake)                                          *)
(***************************************************************************)
Senders == 1..NumSenders
Stoppers == 1..NumStoppers

\* The value a goroutine writes into the slice Received() gave it.
Scribble == "scribbled"

\* The entry that sender s sends.
Entry(s) == "entry " \o ToString(s)

\* Received() handing out c.received itself.
ReceivedNoCopy(arrays, received) == [arrays |-> arrays, cpy |-> received]

\* Client.Received, lines 117-119: cpy := make(...); copy(cpy, c.received).
\* A slice is the index of its backing array among the arrays allocated.
Received(arrays, received) ==
    [arrays |-> Append(arrays, arrays[received]), cpy |-> Len(arrays) + 1]

\* The client that New returns, its goroutine waiting on the channel, with
\* the goroutines about to use it; before New, nothing runs.
FakeNew(running) ==
    [closed |-> FALSE, closes |-> 0, once |-> "new", wg |-> 1, mtx |-> "free",
     arrays |-> <<<<>>>>, received |-> 1,
     recv |-> [pc |-> IF running THEN "range" ELSE "none", e |-> Scribble],
     senders |-> [s \in Senders |-> IF running THEN "send" ELSE "none"],
     stoppers |-> [t \in Stoppers |-> [pc |-> IF running THEN "call" ELSE "none",
                                       kind |-> "Stop"]],
     reader |-> [pc |-> IF running THEN "call" ELSE "none", cpy |-> 0],
     clearer |-> IF running THEN "call" ELSE "none",
     completed |-> <<>>, cleared |-> FALSE, onStops |-> 0]

FakeIdle == FakeNew(FALSE)

(***************************************************************************)
(* Inputs                                                                  *)
(***************************************************************************)
K_foo == <<"f", "o", "o">>
K_a_b == <<"a", ".", "b">>
K_label_a == <<"l", "a", "b", "e", "l", "_", "a">>
K_label_b == <<"l", "a", "b", "e", "l", "_", "b">>
K_abc == <<"a", "b", "c">>
K_app_name == <<"a", "p", "p", "/", "n", "a", "m", "e">>

ClientArgs ==
    [APIServer : {Nil, Ptr("https://k8s.example:6443")},
     KubeConfig : {"", "/etc/kubeconfig"},
     BasicAuth : {Nil, Ptr([Username |-> "u", Password |-> "p"])},
     BearerToken : {"", "tok"},
     BearerTokenFile : {""},
     TLSConfig : {TLSConfig0},
     Authorization : {Nil, Ptr([Type |-> "", Credentials |-> "c"]),
                      Ptr([Type |-> "Basic", Credentials |-> "c"])}]

NamespaceSelectors ==
    [Any : BOOLEAN, MatchNames : {<<>>, <<"ns_a", "ns_b">>, <<"ns_b", "ns_a">>}]

Monitor0 ==
    [Namespace |-> "operator", Name |-> "podmonitor",
     NamespaceSelector |-> [Any |-> FALSE, MatchNames |-> <<>>],
     Selector |-> [MatchLabels |-> <<>>, MatchExpressions |-> <<>>],
     PodTargetLabels |-> <<>>, JobLabel |-> <<>>, AttachMetadata |-> Nil]

Selectors ==
    {[MatchLabels |-> <<>>, MatchExpressions |-> <<>>],
     [MatchLabels |-> (K_foo :> "bar"), MatchExpressions |-> <<>>],
     [MatchLabels |-> (K_foo :> "bar") @@ (K_a_b :> "x"), MatchExpressions |-> <<>>],
     [MatchLabels |-> (K_a_b :> "x"),
      MatchExpressions |-> <<[Key |-> K_foo, Operator |-> "NotIn", Values |-> <<"u", "v">>]>>],
     [MatchLabels |-> <<>>,
      MatchExpressions |-> <<[Key |-> K_foo, Operator |-> "In", Values |-> <<"u">>],
                             [Key |-> K_a_b, Operator |-> "Exists", Values |-> <<>>]>>]}

\* Explicit rules of an endpoint (monitoringv1.RelabelConfig).
V1Rule(src, target, regex, action) ==
    [SourceLabels |-> src, Separator |-> "", TargetLabel |-> target,
     Regex |-> regex, Modulus |-> 0, Replacement |-> "", Action |-> action]

V1Unset == V1Rule(<<"a", "b">>, "c", "", "")
V1Full ==
    [SourceLabels |-> <<"x">>, Separator |-> ",", TargetLabel |-> "job",
     Regex |-> "(x.*)", Modulus |-> 0, Replacement |-> "r$1", Action |-> "replace"]
V1Drop == V1Rule(<<"y">>, "", "tmp_.*", "labeldrop")
V1BadRegex == V1Rule(<<"z">>, "t", "(", "keep")

RelabelLists ==
    {<<>>, <<V1Unset>>, <<V1Drop>>, <<V1Full, V1Drop>>, <<V1Drop, V1BadRegex, V1Unset>>}

MetricRelabelLists == {<<>>, <<V1Drop, V1Unset>>, <<V1BadRegex>>}

Endpoint0 ==
    [Port |-> "metrics", TargetPort |-> Nil,
     Interval |-> "", ScrapeTimeout |-> "", Path |-> "", Scheme |-> "",
     EnableHttp2 |-> Nil,
     RelabelConfigs |-> <<>>, MetricRelabelConfigs |-> <<>>,
     TLSConfig |-> Nil, OAuth2 |-> Nil, Authorization |-> Nil]

SafeTLS0 ==
    [InsecureSkipVerify |-> FALSE,
     CA |-> [Secret |-> Nil, ConfigMap |-> Nil],
     Cert |-> [Secret |-> Nil, ConfigMap |-> Nil],
     KeySecret |-> Nil, ServerName |-> ""]

SecretRef(name, key) == [Name |-> name, Key |-> key]

TLSConfigs ==
    {Nil,
     Ptr([SafeTLS0 EXCEPT !.ServerName = "pods.example", !.InsecureSkipVerify = TRUE]),
     Ptr([SafeTLS0 EXCEPT !.CA = [Secret |-> Ptr(SecretRef("ca", "ca.crt")), ConfigMap |-> Nil]]),
     Ptr([SafeTLS0 EXCEPT !.CA = [Secret |-> Nil, ConfigMap |-> Ptr(SecretRef("ca-cm", "ca.crt"))],
                          !.Cert = [Secret |-> Nil, ConfigMap |-> Ptr(SecretRef("tls-cm", "tls.crt"))],
                          !.KeySecret = Ptr(SecretRef("tls", "tls.key"))]),
     Ptr([SafeTLS0 EXCEPT !.KeySecret = Ptr(SecretRef("tls", "tls.key"))])}

OAuth2Of(clientID) ==
    [ClientID |-> clientID, ClientSecret |-> SecretRef("oauth", "secret"),
     TokenURL |-> "https://idp.example/token", Scopes |-> <<"read">>,
     EndpointParams |-> <<>>]

OAuth2s ==
    {Nil,
     Ptr(OAuth2Of([Secret |-> Ptr(SecretRef("oauth", "id")), ConfigMap |-> Nil])),
     Ptr(OAuth2Of([Secret |-> Nil, ConfigMap |-> Ptr(SecretRef("oauth-cm", "id"))]))}

Authorizations ==
    {Nil,
     Ptr([Type |-> "", Credentials |-> Ptr(SecretRef("token", "value"))]),
     Ptr([Type |-> " Basic ", Credentials |-> Nil])}

SecretAnswers ==
    {[secret |-> [val |-> "client-id", err |-> ""],
      configMap |-> [val |-> "client-id-cm", err |-> ""]],
     [secret |-> [val |-> "", err |-> "secret not found"],
      configMap |-> [val |-> "", err |-> "config map not found"]]}

SecretAnswers0 == CHOOSE fs \in SecretAnswers : fs.secret.err = ""

\* The orders in which a Go map with key set S can be walked.
Orders(S) ==
    {o \in [1..Cardinality(S) -> S] : \A a, b \in 1..Cardinality(S) : a # b => o[a] # o[b]}

(***************************************************************************)
(* Initial states: the client block varies with the namespace selector,    *)
(* the monitor with the endpoint's rules, the credentials with the         *)
(* accessor's answers.                                                     *)
(***************************************************************************)
InitDiscovery ==
    /\ args \in ClientArgs
    /\ m \in {[Monitor0 EXCEPT !.NamespaceSelector = n] : n \in NamespaceSelectors}
            \cup {[Monitor0 EXCEPT !.AttachMetadata = Ptr([Node |-> TRUE])]}
    /\ ep = Endpoint0
    /\ secretfs = SecretAnswers0

InitRelabel ==
    /\ args = DefaultClientArguments
    /\ m \in {[Monitor0 EXCEPT !.Selector = s, !.PodTargetLabels = t, !.JobLabel = j] :
                s \in Selectors,
                t \in {<<>>, <<K_label_a, K_app_name>>},
                j \in {<<>>, K_abc}}
    /\ ep \in {[Endpoint0 EXCEPT !.Port = p[1], !.TargetPort = p[2],
                                 !.RelabelConfigs = r, !.MetricRelabelConfigs = mr] :
                p \in {<<"metrics", Nil>>, <<"", Ptr(8080)>>},
                r \in RelabelLists, mr \in MetricRelabelLists}
    /\ secretfs = SecretAnswers0

InitCredentials ==
    /\ args = DefaultClientArguments
    /\ m = Monitor0
    /\ ep \in {[Endpoint0 EXCEPT !.TLSConfig = t, !.OAuth2 = o, !.Authorization = a] :
                t \in TLSConfigs, o \in OAuth2s, a \in Authorizations}
    /\ secretfs \in SecretAnswers

InitScrape ==
    /\ args = DefaultClientArguments
    /\ m = Monitor0
    /\ ep \in {[Endpoint0 EXCEPT !.Interval = d[1], !.ScrapeTimeout = d[2],
                                 !.Path = h[1], !.Scheme = h[2], !.EnableHttp2 = h2] :
                d \in {"", "30s"} \X {"", "5s"},
                h \in {"", "/probe"} \X {"", "https"},
                h2 \in {Nil, Ptr(TRUE), Ptr(FALSE)}}
    /\ secretfs = SecretAnswers0

Init ==
    /\ InitDiscovery \/ InitRelabel \/ InitCredentials \/ InitScrape
    /\ client = DefaultClientArguments
    /\ given = [m |-> m, ep |-> ep]
    /\ pc = "decode"
    /\ calls = <<>>
    /\ gen = <<>>
    /\ rc = RemoteIdle
    /\ fk = FakeIdle

(***************************************************************************)
(* Actions                                                                 *)
(***************************************************************************)
\* The client block is decoded and validated; the generator is built on it
\* only when it is accepted.
DecodeClient ==
    /\ pc = "decode"
    /\ \E decodeErr \in DecodeAnswers, validateErr \in ValidateAnswers(args) :
         IF UnmarshalRiver(args, decodeErr, validateErr) = ""
         THEN client' = args /\ pc' = "ready"
         ELSE client' = client /\ pc' = "rejected"
    /\ UNCHANGED <<args, m, ep, secretfs, given, calls, gen, rc, fk>>

Call(op, i, out) == [op |-> op, i |-> i, out |-> out]

\* cg.generatePodMonitorConfig(m, ep, i)
CallGeneratePodMonitorConfig ==
    /\ pc = "ready"
    /\ Len(calls) < MaxCalls
    /\ \E i \in 0..(MaxEndpoints - 1), order \in Orders(DOMAIN m.Selector.MatchLabels) :
         calls' = Append(calls, Call("generatePodMonitorConfig", i,
                                     generatePodMonitorConfig(client, m, ep, i, order)))
    /\ client' = clientAfterCompile(client, ep)
    /\ UNCHANGED <<args, m, ep, secretfs, given, pc, gen, rc, fk>>

\* cg.generateK8SSDConfig(m.Spec.NamespaceSelector, m.Namespace, role, m.Spec.AttachMetadata)
CallGenerateK8SSDConfig ==
    /\ pc = "ready"
    /\ Len(calls) < MaxCalls
    /\ calls' = Append(calls, Call("generateK8SSDConfig", 0,
                                   generateK8SSDConfig(client, m.NamespaceSelector, m.Namespace,
                                                       RolePod, m.AttachMetadata)))
    /\ client' = clientAfterSD(client)
    /\ UNCHANGED <<args, m, ep, secretfs, given, pc, gen, rc, fk>>

\* cg.generateOAuth2(ep.OAuth2, m.Namespace) of the crds generator
CallGenerateOAuth2 ==
    /\ pc = "ready"
    /\ Len(calls) < MaxCalls
    /\ calls' = Append(calls, Call("generateOAuth2", 0,
                                   generateOAuth2(secretfs, ep.OAuth2, m.Namespace)))
    /\ UNCHANGED <<args, client, m, ep, secretfs, given, pc, gen, rc, fk>>

\* cg.generateSafeAuthorization(ep.Authorization, m.Namespace) of the crds generator
CallGenerateSafeAuthorization ==
    /\ pc = "ready"
    /\ Len(calls) < MaxCalls
    /\ calls' = Append(calls, Call("generateSafeAuthorization", 0,
                                   generateSafeAuthorization(ep.Authorization, m.Namespace)))
    /\ ep' = [ep EXCEPT !.Authorization = authAfterSafeAuthorization(ep.Authorization)]
    /\ UNCHANGED <<args, client, m, secretfs, given, pc, gen, rc, fk>>

\* cg.generateSafeTLS(m.Namespace, ep.TLSConfig.SafeTLSConfig) of the crds
\* generator, for an endpoint that has a TLS block
CallGenerateSafeTLS ==
    /\ pc = "ready"
    /\ Len(calls) < MaxCalls
    /\ ep.TLSConfig # Nil
    /\ calls' = Append(calls, Call("generateSafeTLS", 0,
                                   generateSafeTLS(m.Namespace, ep.TLSConfig[1])))
    /\ UNCHANGED <<args, client, m, ep, secretfs, given, pc, gen, rc, fk>>

Next ==
    \/ DecodeClient
    \/ CallGeneratePodMonitorConfig
    \/ CallGenerateK8SSDConfig
    \/ CallGenerateOAuth2
    \/ CallGenerateSafeAuthorization
    \/ CallGenerateSafeTLS

Spec == Init /\ [][Next]_vars


(***************************************************************************)
(* A compiled chain applied to a discovered target, as relabel.Process of  *)
(* the prometheus library does: rule after rule, until one drops the       *)
(* target.  A label set is a function from label names to values; a label  *)
(* it does not hold reads as the empty string.  Regular expressions are    *)
(* those of the model's rules, matched anchored at both ends.              *)
(***************************************************************************)
Get(lb, n) == IF n \in DOMAIN lb THEN lb[n] ELSE ""
Set(lb, n, v) == [x \in (DOMAIN lb) \cup {n} |-> IF x = n THEN v ELSE lb[x]]
Del(lb, n) == [x \in (DOMAIN lb) \ {n} |-> lb[x]]

RECURSIVE JoinSep(_, _)
JoinSep(values, sep) ==
    IF values = <<>> THEN ""
    ELSE IF Len(values) = 1 THEN values[1]
    ELSE values[1] \o sep \o JoinSep(Tail(values), sep)

\* cfg.Regex.MatchString(val)
Matches(re, val) ==
    CASE re = "(.*)" -> TRUE
      [] re = "(.+)" -> val # ""
      [] re = "(Failed|Succeeded)" -> val \in {"Failed", "Succeeded"}
      [] re = "(bar);true" -> val = "bar;true"
      [] re = "(x);true" -> val = "x;true"
      [] re = "(u);true" -> val = "u;true"
      [] re = "(u|v);true" -> val \in {"u;true", "v;true"}
      [] re = "tmp_.*" -> val \in {"tmp_", "tmp_x"}
      [] OTHER -> val = re

\* The replacement with the first group of the match put in for $1.
Expand(replacement, val) ==
    IF replacement \in {"$1", "${1}"} THEN val ELSE replacement

Running(lb) == [status |-> "kept", labels |-> lb]

\* relabel(cfg, lb): one rule applied. An action the library does not know
\* and a nil Regexp make it panic.
relabel(cfg, lb) ==
    LET val == JoinSep([i \in 1..Len(cfg.SourceLabels) |-> Get(lb, cfg.SourceLabels[i])],
                       cfg.Separator)
    IN IF cfg.Action \notin {"replace", "keep", "drop", "labeldrop", "labelkeep"}
       THEN [status |-> "panic", labels |-> lb]
       ELSE IF cfg.Regex = NilRegexp
       THEN [status |-> "panic", labels |-> lb]
       ELSE CASE cfg.Action = "drop" ->
                   IF Matches(cfg.Regex, val) THEN [status |-> "dropped", labels |-> lb]
                   ELSE Running(lb)
              [] cfg.Action = "keep" ->
                   IF Matches(cfg.Regex, val) THEN Running(lb)
                   ELSE [status |-> "dropped", labels |-> lb]
              [] cfg.Action = "replace" ->
                   IF ~Matches(cfg.Regex, val) THEN Running(lb)
                   ELSE IF Expand(cfg.Replacement, val) = ""
                   THEN Running(Del(lb, cfg.TargetLabel))
                   ELSE Running(Set(lb, cfg.TargetLabel, Expand(cfg.Replacement, val)))
              [] cfg.Action = "labeldrop" ->
                   Running([x \in {n \in DOMAIN lb : ~Matches(cfg.Regex, n)} |-> lb[x]])
              [] cfg.Action = "labelkeep" ->
                   Running([x \in {n \in DOMAIN lb : Matches(cfg.Regex, n)} |-> lb[x]])

\* relabel.Process(lb, cfgs...)
RECURSIVE Process(_, _)
Process(lb, cfgs) ==
    IF cfgs = <<>> THEN Running(lb)
    ELSE LET r == relabel(Head(cfgs), lb)
         IN IF r.status # "kept" THEN r ELSE Process(r.labels, Tail(cfgs))

\* The labels of a discovered pod before relabelling; label abc is the one
\* the monitors of the model name as job label.
Target(foo, abc) ==
    ("job" :> "podMonitor/operator/podmonitor/0")
    @@ ("__meta_kubernetes_namespace" :> "operator")
    @@ ("__meta_kubernetes_pod_name" :> "pod-0")
    @@ ("__meta_kubernetes_pod_container_name" :> "main")
    @@ ("__meta_kubernetes_pod_phase" :> "Running")
    @@ ("__meta_kubernetes_pod_container_port_name" :> "metrics")
    @@ ("__meta_kubernetes_pod_container_port_number" :> "8080")
    @@ ("__meta_kubernetes_pod_label_foo" :> foo)
    @@ ("__meta_kubernetes_pod_labelpresent_foo" :> "true")
    @@ ("__meta_kubernetes_pod_label_a_b" :> "x")
    @@ ("__meta_kubernetes_pod_labelpresent_a_b" :> "true")
    @@ ("tmp_x" :> "scratch")
    @@ (IF abc = Nil THEN <<>>
        ELSE ("__meta_kubernetes_pod_label_abc" :> abc[1])
             @@ ("__meta_kubernetes_pod_labelpresent_abc" :> "true"))

Targets == {Target(foo, abc) : foo \in {"bar", "u"}, abc \in {Nil, Ptr(""), Ptr("svc")}}


(***************************************************************************)
(* The builders called one by one, for the endpoints of several monitors:  *)
(* the credential builders of the pm generator and relabeler.addFromV1 of  *)
(* both generators, each on arguments of its own.                          *)
(***************************************************************************)
InitBuilders ==
    /\ args = DefaultClientArguments
    /\ client = DefaultClientArguments
    /\ m = Monitor0
    /\ ep = Endpoint0
    /\ secretfs = SecretAnswers0
    /\ given = [m |-> m, ep |-> ep]
    /\ pc = "ready"
    /\ calls = <<>>
    /\ gen = <<>>
    /\ rc = RemoteIdle
    /\ fk = FakeIdle

Namespaces == {"operator", "other"}

BuilderCall(op, ns, arg, out) == [op |-> op, ns |-> ns, arg |-> arg, out |-> out]

RelabelerCall(op, r, arg, out) == [op |-> op, r |-> r, arg |-> arg, out |-> out]

\* cg.GenerateSafeTLS(m.Namespace, ep.TLSConfig.SafeTLSConfig) of the pm generator
PMGenerateSafeTLS ==
    /\ Len(calls) < MaxCalls
    /\ \E ns \in Namespaces, tls \in TLSConfigs \ {Nil} :
         calls' = Append(calls, BuilderCall("GenerateSafeTLS", ns, tls[1],
                                            GenerateSafeTLS(ns, tls[1])))
    /\ UNCHANGED <<args, client, m, ep, secretfs, given, pc, gen, rc, fk>>

\* cg.GenerateOAuth2(ep.OAuth2, m.Namespace) of the pm generator
PMGenerateOAuth2 ==
    /\ Len(calls) < MaxCalls
    /\ \E ns \in Namespaces, oauth2 \in OAuth2s :
         calls' = Append(calls, BuilderCall("GenerateOAuth2", ns, oauth2,
                                            GenerateOAuth2(oauth2, ns)))
    /\ UNCHANGED <<args, client, m, ep, secretfs, given, pc, gen, rc, fk>>

\* cg.GenerateSafeAuthorization(ep.Authorization, m.Namespace) of the pm generator
PMGenerateSafeAuthorization ==
    /\ Len(calls) < MaxCalls
    /\ \E ns \in Namespaces, auth \in Authorizations :
         calls' = Append(calls, BuilderCall("GenerateSafeAuthorization", ns, auth,
                                            GenerateSafeAuthorization(auth, ns)))
    /\ UNCHANGED <<args, client, m, ep, secretfs, given, pc, gen, rc, fk>>

\* The relabelers addFromV1 is called on: a new one, and one that holds the
\* rule of initRelabelings.
Relabelers == {<<>>, initRelabelings}

\* relabels.addFromV1(ep.RelabelConfigs...) of the pm generator
PMAddFromV1 ==
    /\ Len(calls) < MaxCalls
    /\ \E r \in Relabelers, cfgs \in RelabelLists \cup MetricRelabelLists :
         calls' = Append(calls, RelabelerCall("addFromV1", r, cfgs, addFromV1(r, cfgs)))
    /\ UNCHANGED <<args, client, m, ep, secretfs, given, pc, gen, rc, fk>>

\* relabels.addFromV1(ep.RelabelConfigs...) of the crds generator
CrdsAddFromV1 ==
    /\ Len(calls) < MaxCalls
    /\ \E r \in Relabelers, cfgs \in RelabelLists \cup MetricRelabelLists :
         calls' = Append(calls, RelabelerCall("crds.addFromV1", r, cfgs,
                                              [configs |-> addFromV1Crds(r, cfgs)]))
    /\ UNCHANGED <<args, client, m, ep, secretfs, given, pc, gen, rc, fk>>

NextBuilders ==
    \/ PMGenerateSafeTLS
    \/ PMGenerateOAuth2
    \/ PMGenerateSafeAuthorization
    \/ PMAddFromV1
    \/ CrdsAddFromV1

SpecBuilders == InitBuilders /\ [][NextBuilders]_vars


(***************************************************************************)
(* A monitor compiled as a whole: its endpoints are the endpoint under     *)
(* study and the default one, in any arrangement of up to MaxEndpoints.    *)
(* The client block has no API server, so building the service-discovery  *)
(* config writes nothing.                                                  *)
(***************************************************************************)
MonitorEndpoints ==
    {[Endpoint0 EXCEPT !.Port = "", !.TargetPort = Ptr(8080)],
     [Endpoint0 EXCEPT !.RelabelConfigs = <<V1Full, V1Drop>>, !.EnableHttp2 = Ptr(FALSE)],
     [Endpoint0 EXCEPT !.RelabelConfigs = <<V1Drop, V1BadRegex, V1Unset>>],
     [Endpoint0 EXCEPT !.MetricRelabelConfigs = <<V1BadRegex>>]}
    \cup {[Endpoint0 EXCEPT !.TLSConfig = t] : t \in TLSConfigs \ {Nil}}
    \cup {[Endpoint0 EXCEPT !.OAuth2 = o] : o \in OAuth2s \ {Nil}}
    \cup {[Endpoint0 EXCEPT !.Authorization = a] : a \in Authorizations \ {Nil}}

InitMonitor ==
    /\ args = DefaultClientArguments
    /\ client = DefaultClientArguments
    /\ m \in {Monitor0,
               [Monitor0 EXCEPT !.Selector = [MatchLabels |-> (K_foo :> "bar"),
                                              MatchExpressions |-> <<>>],
                                !.JobLabel = K_abc]}
    /\ ep \in MonitorEndpoints
    /\ secretfs = SecretAnswers0
    /\ given = [m |-> m, ep |-> ep]
    /\ pc = "ready"
    /\ calls = <<>>
    /\ gen = <<>>
    /\ rc = RemoteIdle
    /\ fk = FakeIdle

EndpointLists == UNION {[1..n -> {ep, Endpoint0}] : n \in 0..MaxEndpoints}

\* Every endpoint of the monitor compiled, in order.
CompileMonitor ==
    /\ Len(calls) < MaxCalls
    /\ \E eps \in EndpointLists, order \in Orders(DOMAIN m.Selector.MatchLabels) :
         calls' = Append(calls, [op |-> "compileMonitor", arg |-> eps,
                                 out |-> compileMonitor(client, m, eps, order)])
    /\ UNCHANGED <<args, client, m, ep, secretfs, given, pc, gen, rc, fk>>

NextMonitor == CompileMonitor

SpecMonitor == InitMonitor /\ [][NextMonitor]_vars


(***************************************************************************)
(* sanitizeLabelName on the job label of a monitor, the label drawn from   *)
(* the names of up to MaxLabelLen characters and the name of the example.  *)
(***************************************************************************)
K_foo_bar_baz == <<"f", "o", "o", ".", "b", "a", "r", "/", "b", "a", "z">>

NameChars == {"a", "Z", "0", "_", ".", "/", "-"}

LabelNames == UNION {[1..n -> NameChars] : n \in 0..MaxLabelLen} \cup {K_foo_bar_baz}

InitSanitize ==
    /\ args = DefaultClientArguments
    /\ client = DefaultClientArguments
    /\ m \in {[Monitor0 EXCEPT !.JobLabel = name] : name \in LabelNames}
    /\ ep = Endpoint0
    /\ secretfs = SecretAnswers0
    /\ given = [m |-> m, ep |-> ep]
    /\ pc = "ready"
    /\ calls = <<>>
    /\ gen = <<>>
    /\ rc = RemoteIdle
    /\ fk = FakeIdle

\* sanitizeLabelName(m.Spec.JobLabel)
SanitizeLabelName ==
    /\ Len(calls) < MaxCalls
    /\ calls' = Append(calls, [op |-> "sanitizeLabelName", arg |-> m.JobLabel,
                               out |-> sanitizeLabelName(m.JobLabel)])
    /\ UNCHANGED <<args, client, m, ep, secretfs, given, pc, gen, rc, fk>>

NextSanitize == SanitizeLabelName

SpecSanitize == InitSanitize /\ [][NextSanitize]_vars


(***************************************************************************)
(* getRemoteConfig, statement by statement, run up to MaxRuns times on one *)
(* provider: the cache file of a run is what the runs before it left.      *)
(***************************************************************************)
AgentManagements ==
    {AgentManagement0,
     [AgentManagement0 EXCEPT !.Username = ""],
     [AgentManagement0 EXCEPT !.PasswordFile = ""],
     [AgentManagement0 EXCEPT !.PollingInterval = "1?"],
     [AgentManagement0 EXCEPT !.PollingInterval = ""],
     [AgentManagement0 EXCEPT !.Namespace = ""],
     [AgentManagement0 EXCEPT !.CacheLocation = ""]}

CacheFiles == {Nil, Ptr(B_debug), Ptr(B_broken)}

\* What FetchRemoteConfig answers.
FetchAnswers ==
    {[bytes |-> b, err |-> ""] : b \in {B_info, B_debug, B_dup, B_broken}}
    \cup {[bytes |-> "", err |-> "error retrieving remote config"]}

\* What os.WriteFile answers.
WriteAnswers == {"", "write failed"}

InitRemote ==
    /\ args = DefaultClientArguments
    /\ client = DefaultClientArguments
    /\ m = Monitor0
    /\ ep = Endpoint0
    /\ secretfs = SecretAnswers0
    /\ given = [m |-> m, ep |-> ep]
    /\ pc = "ready"
    /\ calls = <<>>
    /\ gen = <<>>
    /\ \E am \in AgentManagements, file \in CacheFiles :
         rc = [RemoteIdle EXCEPT !.pc = "validate", !.am = am, !.cacheFile = file, !.runs = 1]
    /\ fk = FakeIdle

RemoteOthers == <<args, client, m, ep, secretfs, given, pc, calls, gen, fk>>

\* Lines 114-116: configProvider.AgentManagementConfig().Validate()
RemoteValidate ==
    /\ rc.pc = "validate"
    /\ LET err == AgentManagementValidate(rc.am)
       IN rc' = [rc EXCEPT !.pc = getRemoteConfigNext("validate", err),
                           !.ret = IF err # "" THEN [cfg |-> Nil, err |-> "invalid initial config"]
                                   ELSE @]
    /\ UNCHANGED RemoteOthers

\* Lines 117-121: configProvider.FetchRemoteConfig()
RemoteFetch ==
    /\ rc.pc = "fetch"
    /\ \E ans \in FetchAnswers :
         rc' = [rc EXCEPT !.pc = getRemoteConfigNext("fetch", ans.err), !.fetched = ans]
    /\ UNCHANGED RemoteOthers

\* Lines 122-128: LoadBytes(remoteConfigBytes, expandEnvVars, &remoteConfig)
RemoteLoad ==
    /\ rc.pc = "load"
    /\ LET loaded == LoadBytes(rc.fetched.bytes)
       IN rc' = [rc EXCEPT !.pc = getRemoteConfigNext("load", loaded.err),
                           !.remoteConfig = loaded.cfg]
    /\ UNCHANGED RemoteOthers

\* Lines 130-133: remoteConfig.Validate(nil)
RemoteCheck ==
    /\ rc.pc = "check"
    /\ rc' = [rc EXCEPT !.pc = getRemoteConfigNext("check", ConfigValidate(rc.remoteConfig))]
    /\ UNCHANGED RemoteOthers

\* Lines 137-140: configProvider.CacheRemoteConfig(remoteConfigBytes), then
\* return &remoteConfig, nil.  A write that fails leaves the old file or a
\* partial one.
RemoteCache ==
    /\ rc.pc = "cache"
    /\ \E err \in WriteAnswers :
         \E file \in (IF err = "" THEN {Ptr(rc.fetched.bytes)}
                       ELSE {rc.cacheFile, Ptr(B_broken)}) :
           rc' = [rc EXCEPT !.pc = getRemoteConfigNext("cache", err),
                            !.cacheFile = file,
                            !.writes = Append(@, [bytes |-> rc.fetched.bytes, err |-> err]),
                            !.ret = [cfg |-> Ptr(rc.remoteConfig), err |-> ""]]
    /\ UNCHANGED RemoteOthers

\* Lines 120, 127, 132: return configProvider.GetCachedRemoteConfig(expandEnvVars)
RemoteFallback ==
    /\ rc.pc = "fallback"
    /\ rc' = [rc EXCEPT !.pc = getRemoteConfigNext("fallback", ""),
                        !.ret = GetCachedRemoteConfig(rc.cacheFile)]
    /\ UNCHANGED RemoteOthers

\* The next poll: getRemoteConfig is called again on the same provider.
RemoteAgain ==
    /\ rc.pc = "done"
    /\ rc.runs < MaxRuns
    /\ rc' = [rc EXCEPT !.pc = "validate", !.fetched = NoFetch, !.remoteConfig = Config0,
                        !.ret = NoReturn, !.writes = <<>>, !.runs = @ + 1]
    /\ UNCHANGED RemoteOthers

NextRemote ==
    \/ RemoteValidate
    \/ RemoteFetch
    \/ RemoteLoad
    \/ RemoteCheck
    \/ RemoteCache
    \/ RemoteFallback
    \/ RemoteAgain

SpecRemote == InitRemote /\ [][NextRemote]_vars


(***************************************************************************)
(* The fake client used by NumSenders goroutines sending one entry each on *)
(* Chan(), NumStoppers goroutines calling Stop or StopNow, one calling     *)
(* Received and writing into what it got, and one calling Clear, in any    *)
(* interleaving with the client's own goroutine.  The channel is           *)
(* unbuffered: a send completes when the client's goroutine takes the      *)
(* entry.  c.received is read and written under c.mtx only, so a locked    *)
(* region is two steps: taking the lock, and the region with the unlock.   *)
(***************************************************************************)
InitFake ==
    /\ args = DefaultClientArguments
    /\ client = DefaultClientArguments
    /\ m = Monitor0
    /\ ep = Endpoint0
    /\ secretfs = SecretAnswers0
    /\ given = [m |-> m, ep |-> ep]
    /\ pc = "ready"
    /\ calls = <<>>
    /\ gen = <<>>
    /\ rc = RemoteIdle
    /\ fk = FakeNew(TRUE)

FakeOthers == <<args, client, m, ep, secretfs, given, pc, calls, gen, rc>>

\* c.Chan() <- e, taken by `for e := range c.entries` (line 94)
FakeSend(s) ==
    /\ fk.senders[s] = "send"
    /\ ~fk.closed
    /\ fk.recv.pc = "range"
    /\ fk' = [fk EXCEPT !.senders[s] = "sent",
                        !.recv = [pc |-> "lock", e |-> Entry(s)],
                        !.completed = Append(@, Entry(s))]

\* A send on the closed channel panics.
FakeSendClosed(s) ==
    /\ fk.senders[s] = "send"
    /\ fk.closed
    /\ fk' = [fk EXCEPT !.senders[s] = "panicked"]

\* Line 95: c.mtx.Lock()
FakeRecvLock ==
    /\ fk.recv.pc = "lock"
    /\ fk.mtx = "free"
    /\ fk' = [fk EXCEPT !.recv.pc = "append", !.mtx = "recv"]

\* Lines 96-97: c.received = append(c.received, e); c.mtx.Unlock()
FakeRecvAppend ==
    /\ fk.recv.pc = "append"
    /\ fk' = [fk EXCEPT !.arrays[fk.received] = Append(@, fk.recv.e),
                        !.mtx = "free",
                        !.recv.pc = "range"]

\* Lines 93-94: the range ends on the closed channel; defer c.wg.Done()
FakeRecvExit ==
    /\ fk.recv.pc = "range"
    /\ fk.closed
    /\ fk' = [fk EXCEPT !.recv.pc = "exited", !.wg = @ - 1]

\* Stop() or StopNow(), line 105: c.once.Do is entered; the first caller
\* runs the function, the others wait until it has returned.
FakeStopOnce(t) ==
    /\ fk.stoppers[t].pc = "call"
    /\ fk.once # "running"
    /\ \E kind \in {"Stop", "StopNow"} :
         IF fk.once = "new"
         THEN fk' = [fk EXCEPT !.once = "running",
                               !.stoppers[t] = [pc |-> "close", kind |-> kind]]
         ELSE fk' = [fk EXCEPT !.stoppers[t] = [pc |-> "wait", kind |-> kind]]

\* Line 105: close(c.entries); closing a closed channel panics.
FakeStopClose(t) ==
    /\ fk.stoppers[t].pc = "close"
    /\ IF fk.closed
       THEN fk' = [fk EXCEPT !.stoppers[t].pc = "panicked", !.closes = @ + 1]
       ELSE fk' = [fk EXCEPT !.closed = TRUE, !.closes = @ + 1, !.once = "done",
                             !.stoppers[t].pc = "wait"]

\* Line 106: c.wg.Wait()
FakeStopWait(t) ==
    /\ fk.stoppers[t].pc = "wait"
    /\ fk.wg = 0
    /\ fk' = [fk EXCEPT !.stoppers[t].pc = "onstop"]

\* Line 107: c.OnStop(), and Stop returns.
FakeStopOnStop(t) ==
    /\ fk.stoppers[t].pc = "onstop"
    /\ fk' = [fk EXCEPT !.stoppers[t].pc = "returned", !.onStops = @ + 1]

\* Received(), line 115: c.mtx.Lock()
FakeReceivedLock ==
    /\ fk.reader.pc = "call"
    /\ fk.mtx = "free"
    /\ fk' = [fk EXCEPT !.reader.pc = "copy", !.mtx = "reader"]

\* Lines 116-119: the copy is made and returned, the lock released.
FakeReceivedCopy ==
    /\ fk.reader.pc = "copy"
    /\ LET got == Received(fk.arrays, fk.received)
       IN fk' = [fk EXCEPT !.arrays = got.arrays,
                           !.reader = [pc |-> "got", cpy |-> got.cpy],
                           !.mtx = "free"]

\* The caller of Received() writes into every element of what it got.
FakeModifyCopy ==
    /\ fk.reader.pc = "got"
    /\ fk' = [fk EXCEPT !.arrays[fk.reader.cpy] = [i \in DOMAIN @ |-> Scribble],
                        !.reader.pc = "wrote"]

\* Clear(), line 134: c.mtx.Lock()
FakeClearLock ==
    /\ fk.clearer = "call"
    /\ fk.mtx = "free"
    /\ fk' = [fk EXCEPT !.clearer = "clear", !.mtx = "clearer"]

\* Lines 135-136: c.received = []loki.Entry{}, and the lock is released.
FakeClear ==
    /\ fk.clearer = "clear"
    /\ fk' = [fk EXCEPT !.arrays = Append(@, <<>>),
                        !.received = Len(fk.arrays) + 1,
                        !.cleared = TRUE,
                        !.clearer = "done",
                        !.mtx = "free"]

NextFake ==
    \/ \E s \in Senders : FakeSend(s) /\ UNCHANGED FakeOthers
    \/ \E s \in Senders : FakeSendClosed(s) /\ UNCHANGED FakeOthers
    \/ FakeRecvLock /\ UNCHANGED FakeOthers
    \/ FakeRecvAppend /\ UNCHANGED FakeOthers
    \/ FakeRecvExit /\ UNCHANGED FakeOthers
    \/ \E t \in Stoppers : FakeStopOnce(t) /\ UNCHANGED FakeOthers
    \/ \E t \in Stoppers : FakeStopClose(t) /\ UNCHANGED FakeOthers
    \/ \E t \in Stoppers : FakeStopWait(t) /\ UNCHANGED FakeOthers
    \/ \E t \in Stoppers : FakeStopOnStop(t) /\ UNCHANGED FakeOthers
    \/ FakeReceivedLock /\ UNCHANGED FakeOthers
    \/ FakeReceivedCopy /\ UNCHANGED FakeOthers
    \/ FakeModifyCopy /\ UNCHANGED FakeOthers
    \/ FakeClearLock /\ UNCHANGED FakeOthers
    \/ FakeClear /\ UNCHANGED FakeOthers

SpecFake == InitFake /\ [][NextFake]_vars


(***************************************************************************)
(* Concurrent compilations: NumGoroutines goroutines run                   *)
(* generateK8SSDConfig on one configGenerator, statement by statement,     *)
(* with no lock.  cg.config.Client.HTTPClientConfig.Authorization is a     *)
(* pointer, so what it points to is shared by all of them.                 *)
(***************************************************************************)
Goroutines == 1..NumGoroutines

\* The client blocks UnmarshalRiver accepts.
AcceptedClientArgs ==
    {a \in ClientArgs : \E v \in ValidateAnswers(a) : UnmarshalRiver(a, "", v) = ""}

Goroutine0 == [pc |-> "start", authz |-> Nil, wrote |-> FALSE, out |-> Nil]

InitConcurrent ==
    /\ args \in AcceptedClientArgs
    /\ client = args
    /\ m \in {Monitor0, [Monitor0 EXCEPT !.NamespaceSelector.Any = TRUE]}
    /\ ep = Endpoint0
    /\ secretfs = SecretAnswers0
    /\ given = [m |-> m, ep |-> ep]
    /\ pc = "ready"
    /\ calls = <<>>
    /\ gen = [g \in Goroutines |-> Goroutine0]
    /\ rc = RemoteIdle
    /\ fk = FakeIdle

Goto(g, label) == gen' = [gen EXCEPT ![g].pc = label]

\* Lines 23-33: the config is allocated, the namespaces resolved, the
\* client struct copied and its kubeconfig path taken over.
GenCopyClient(g) ==
    /\ gen[g].pc = "start"
    /\ Goto(g, "apiServer")
    /\ UNCHANGED client

\* Lines 34-48: without an API-server URL nothing else is read; with one,
\* the URL, basic auth, bearer token and TLS settings are converted.
GenAPIServer(g) ==
    /\ gen[g].pc = "apiServer"
    /\ IF client.APIServer # Nil THEN Goto(g, "authNil") ELSE Goto(g, "attach")
    /\ UNCHANGED client

\* Line 49: if hCfg.Authorization != nil
GenAuthNil(g) ==
    /\ gen[g].pc = "authNil"
    /\ IF client.Authorization # Nil THEN Goto(g, "readType") ELSE Goto(g, "attach")
    /\ UNCHANGED client

\* Line 50: if hCfg.Authorization.Type == "", a read through the pointer
GenReadType(g) ==
    /\ gen[g].pc = "readType"
    /\ IF client.Authorization[1].Type = "" THEN Goto(g, "writeType") ELSE Goto(g, "convert")
    /\ UNCHANGED client

\* Line 51: hCfg.Authorization.Type = "Bearer", a write through the pointer
GenWriteType(g) ==
    /\ gen[g].pc = "writeType"
    /\ client' = [client EXCEPT !.Authorization = Ptr([@[1] EXCEPT !.Type = "Bearer"])]
    /\ gen' = [gen EXCEPT ![g].pc = "convert", ![g].wrote = TRUE]

\* Line 53: hCfg.Authorization.Convert(), a read through the pointer
GenConvert(g) ==
    /\ gen[g].pc = "convert"
    /\ gen' = [gen EXCEPT ![g].pc = "attach",
                          ![g].authz = Ptr(ConvertAuthorization(client.Authorization[1]))]
    /\ UNCHANGED client

\* Lines 56-59: the attach-metadata flag is set and the config returned.
GenReturn(g) ==
    /\ gen[g].pc = "attach"
    /\ gen' = [gen EXCEPT
                ![g].pc = "done",
                ![g].out = Ptr([generateK8SSDConfig(
                                    [args EXCEPT !.Authorization = Nil],
                                    m.NamespaceSelector, m.Namespace, RolePod, m.AttachMetadata)
                                EXCEPT !.HTTPClientConfig.Authorization = gen[g].authz])]
    /\ UNCHANGED client

Others == <<args, m, ep, secretfs, given, pc, calls, rc, fk>>

NextConcurrent ==
    \/ \E g \in Goroutines : GenCopyClient(g) /\ UNCHANGED Others
    \/ \E g \in Goroutines : GenAPIServer(g) /\ UNCHANGED Others
    \/ \E g \in Goroutines : GenAuthNil(g) /\ UNCHANGED Others
    \/ \E g \in Goroutines : GenReadType(g) /\ UNCHANGED Others
    \/ \E g \in Goroutines : GenWriteType(g) /\ UNCHANGED Others
    \/ \E g \in Goroutines : GenConvert(g) /\ UNCHANGED Others
    \/ \E g \in Goroutines : GenReturn(g) /\ UNCHANGED Others

SpecConcurrent == InitConcurrent /\ [][NextConcurrent]_vars

(***************************************************************************)
(* Properties                                                              *)
(***************************************************************************)
\* The calls of generatePodMonitorConfig made so far, and those that
\* returned a scrape config.
Compiles == {k \in 1..Len(calls) : calls[k].op = "generatePodMonitorConfig"}
OkCompiles == {k \in Compiles : calls[k].out.cfg # Nil}
RelabelsOf(k) == calls[k].out.cfg[1].RelabelConfigs
MetricRelabelsOf(k) == calls[k].out.cfg[1].MetricRelabelConfigs

\* Every service-discovery config built so far, by generateK8SSDConfig
\* called on its own or within generatePodMonitorConfig.
SDConfigs ==
    {calls[k].out : k \in {j \in 1..Len(calls) : calls[j].op = "generateK8SSDConfig"}}
    \cup {calls[k].out.cfg[1].ServiceDiscoveryConfigs[1] : k \in OkCompiles}

ExpectedRule(src, target, regex, replacement, action) ==
    [SourceLabels |-> src, Separator |-> ";", TargetLabel |-> target,
     Regex |-> regex, Modulus |-> 0, Replacement |-> replacement, Action |-> action]

JobTempRule ==
    ExpectedRule(<<"job">>, "__tmp_prometheus_job_name", "(.*)", "$1", "replace")
PhaseDropRule ==
    ExpectedRule(<<"__meta_kubernetes_pod_phase">>, "", "(Failed|Succeeded)", "$1", "drop")
ExpectedPort == IF given.ep.Port # "" THEN "metrics" ELSE "8080"
PortKeepRule ==
    IF given.ep.Port # ""
    THEN ExpectedRule(<<"__meta_kubernetes_pod_container_port_name">>, "", "metrics", "$1", "keep")
    ELSE ExpectedRule(<<"__meta_kubernetes_pod_container_port_number">>, "", "8080", "$1", "keep")
JobStaticRule == ExpectedRule(<<>>, "job", "(.*)", "operator/podmonitor", "replace")
JobOverrideRule ==
    ExpectedRule(<<"__meta_kubernetes_pod_label_abc">>, "job", "(.+)", "${1}", "replace")
EndpointRule == ExpectedRule(<<>>, "endpoint", "(.*)", ExpectedPort, "replace")

\* C1: in every compiled primary chain the first rule copies job into
\* __tmp_prometheus_job_name, the last rule is the static endpoint rule, and
\* a job-label override rule, when the monitor declares one, is present and
\* comes strictly after the static job rule.
C1_OrderInvariant ==
    \A k \in OkCompiles :
        LET chain == RelabelsOf(k)
            n == Len(chain)
        IN /\ n >= 2
           /\ chain[1] = JobTempRule
           /\ chain[n] = EndpointRule
           /\ given.m.JobLabel # <<>> =>
                /\ \E j \in 1..n : chain[j] = JobOverrideRule
                /\ \A j \in 1..n : chain[j] = JobOverrideRule =>
                        \E i \in 1..(j - 1) : chain[i] = JobStaticRule

C1_Witness ==
    \E k \in OkCompiles :
        /\ given.m.JobLabel # <<>>
        /\ given.m.PodTargetLabels # <<>>
        /\ DOMAIN given.m.Selector.MatchLabels # {}
        /\ given.ep.RelabelConfigs # <<>>

\* C2: every rule of a compiled relabel chain or metric-relabel chain has
\* action, separator, regex and replacement set, the defaults standing in
\* for what its source left unset; the metric-relabel chain is the explicit
\* list, rule by rule, with that defaulting applied.
C2_AllRulesDefaulted ==
    \A k \in OkCompiles :
        /\ \A r \in {RelabelsOf(k)[j] : j \in 1..Len(RelabelsOf(k))}
                \cup {MetricRelabelsOf(k)[j] : j \in 1..Len(MetricRelabelsOf(k))} :
              /\ r.Action # ""
              /\ r.Separator # ""
              /\ r.Regex # NilRegexp
              /\ r.Replacement # ""
        /\ Len(MetricRelabelsOf(k)) = Len(given.ep.MetricRelabelConfigs)
        /\ \A j \in 1..Len(MetricRelabelsOf(k)) :
              LET src == given.ep.MetricRelabelConfigs[j]
                  r == MetricRelabelsOf(k)[j]
              IN /\ r.Action = (IF src.Action = "" THEN "replace" ELSE src.Action)
                 /\ r.Separator = (IF src.Separator = "" THEN ";" ELSE src.Separator)
                 /\ r.Regex = (IF src.Regex = "" THEN "(.*)" ELSE src.Regex)
                 /\ r.Replacement = (IF src.Replacement = "" THEN "$1" ELSE src.Replacement)

\* C3: the namespace list of every service-discovery config is empty when
\* the selector says any, the match-names in their order when any is false
\* and there are some, and the monitor's own namespace otherwise.
C3_NamespaceList ==
    \A sd \in SDConfigs :
        LET nsel == given.m.NamespaceSelector
        IN /\ nsel.Any => sd.Names = <<>>
           /\ (~nsel.Any /\ nsel.MatchNames # <<>>) => sd.Names = nsel.MatchNames
           /\ (~nsel.Any /\ nsel.MatchNames = <<>>) => sd.Names = <<"operator">>

C3_Witness ==
    /\ SDConfigs # {}
    /\ given.m.NamespaceSelector.Any
    /\ given.m.NamespaceSelector.MatchNames = <<"ns_b", "ns_a">>

\* C4: a monitor with no selector, no pod target labels and no job label,
\* and an endpoint with a named port and no explicit rules, compile to the
\* eight rules job-temp, phase-drop, port-keep, namespace, container, pod,
\* job-static, endpoint-static, and to an empty metric-relabel chain.
C4_DefaultChain ==
    \A k \in OkCompiles :
        ( /\ DOMAIN given.m.Selector.MatchLabels = {}
          /\ given.m.Selector.MatchExpressions = <<>>
          /\ given.m.PodTargetLabels = <<>>
          /\ given.m.JobLabel = <<>>
          /\ given.ep.Port # ""
          /\ given.ep.RelabelConfigs = <<>>
          /\ given.ep.MetricRelabelConfigs = <<>> )
        => /\ RelabelsOf(k) =
                <<JobTempRule,
                  PhaseDropRule,
                  ExpectedRule(<<"__meta_kubernetes_pod_container_port_name">>, "",
                               "metrics", "$1", "keep"),
                  ExpectedRule(<<"__meta_kubernetes_namespace">>, "namespace",
                               "(.*)", "$1", "replace"),
                  ExpectedRule(<<"__meta_kubernetes_pod_container_name">>, "container",
                               "(.*)", "$1", "replace"),
                  ExpectedRule(<<"__meta_kubernetes_pod_name">>, "pod",
                               "(.*)", "$1", "replace"),
                  ExpectedRule(<<>>, "job", "(.*)", "operator/podmonitor", "replace"),
                  ExpectedRule(<<>>, "endpoint", "(.*)", "metrics", "replace")>>
           /\ MetricRelabelsOf(k) = <<>>

C4_Witness ==
    /\ OkCompiles # {}
    /\ given.m = Monitor0
    /\ given.ep = Endpoint0

\* The keep rule expected for each match-label key of the model.
ExpectedSelectorRule(key) ==
    IF key = K_foo
    THEN ExpectedRule(<<"__meta_kubernetes_pod_label_foo",
                        "__meta_kubernetes_pod_labelpresent_foo">>,
                      "", "(bar);true", "$1", "keep")
    ELSE ExpectedRule(<<"__meta_kubernetes_pod_label_a_b",
                        "__meta_kubernetes_pod_labelpresent_a_b">>,
                      "", "(x);true", "$1", "keep")

\* C5: the rules 3 .. 2+n of a compiled chain, n the number of match-labels,
\* are exactly one keep rule per match-label k = v, on the pod-label and
\* pod-labelpresent meta-labels of the sanitized k with regex (v);true; they
\* follow the phase-drop rule and the port-keep rule follows the selector's
\* rules; without a selector the port-keep rule is rule 3 and no such keep
\* rule is in the chain.
C5_SelectorRules ==
    \A k \in OkCompiles :
        LET chain == RelabelsOf(k)
            keys == DOMAIN given.m.Selector.MatchLabels
            n == Cardinality(keys)
            e == Len(given.m.Selector.MatchExpressions)
        IN /\ chain[2] = PhaseDropRule
           /\ {chain[j] : j \in 3..(2 + n)} = {ExpectedSelectorRule(key) : key \in keys}
           /\ chain[3 + n + e] = PortKeepRule
           /\ (n = 0 /\ e = 0) =>
                \A j \in 1..Len(chain) :
                    chain[j] \notin {ExpectedSelectorRule(K_foo), ExpectedSelectorRule(K_a_b)}

C5_Witness ==
    \E k \in OkCompiles :
        /\ Cardinality(DOMAIN given.m.Selector.MatchLabels) = 2
        /\ RelabelsOf(k)[3] = ExpectedSelectorRule(K_a_b)
        /\ RelabelsOf(k)[4] = ExpectedSelectorRule(K_foo)

\* C6 as stated: the job name is <role>/<namespace>/<name>/<i>, role being
\* the service-discovery role pod.
C6_JobNameIsRolePrefixed ==
    \A k \in OkCompiles :
        calls[k].out.cfg[1].JobName = "pod/operator/podmonitor/" \o ToString(calls[k].i)

\* C6, amended: the job name is podMonitor/<namespace>/<name>/<i>, the
\* service-discovery role is pod, and two endpoint indices of one monitor
\* never share a job name.
C6_JobName ==
    /\ \A k \in OkCompiles :
          /\ calls[k].out.cfg[1].JobName =
                "podMonitor/operator/podmonitor/" \o ToString(calls[k].i)
          /\ calls[k].out.cfg[1].ServiceDiscoveryConfigs[1].Role = "pod"
    /\ \A a, b \in OkCompiles :
          calls[a].i # calls[b].i =>
              calls[a].out.cfg[1].JobName # calls[b].out.cfg[1].JobName

C6_Witness ==
    \E a, b \in OkCompiles : calls[a].i = 0 /\ calls[b].i = 1

C8_InputsUnchanged ==
    pc = "ready" => /\ client = args
                    /\ m = given.m
                    /\ ep = given.ep

SharedReaders == {"readType", "convert"}
SharedWriters == {"writeType"}

\* C9: no goroutine writes the shared client settings: none has written
\* them, they are as they were accepted, and in no state is one goroutine
\* about to write a shared field that another is about to read or write.
C9_NoSharedWrite ==
    /\ client = args
    /\ \A g \in DOMAIN gen : ~gen[g].wrote
    /\ \A g, h \in DOMAIN gen :
          (g # h /\ gen[g].pc \in SharedWriters)
              => gen[h].pc \notin SharedReaders \cup SharedWriters

\* C11: a client block is accepted only when api_server and kubeconfig_file
\* are not both set and the HTTP client configuration differs from the
\* default only with api_server set and kubeconfig_file unset; every other
\* combination is rejected with an error, so an accepted block never holds
\* both a kubeconfig path and an API-server URL.
CustomHTTPClient(a) ==
    \/ a.BasicAuth # Nil
    \/ a.BearerToken # ""
    \/ a.BearerTokenFile # ""
    \/ a.Authorization # Nil
    \/ a.TLSConfig # TLSConfig0

AllowedCombination(a) ==
    /\ ~(a.APIServer # Nil /\ a.KubeConfig # "")
    /\ (CustomHTTPClient(a) => (a.APIServer # Nil /\ a.KubeConfig = ""))

C11_AcceptedCombinations ==
    /\ pc = "ready" => /\ AllowedCombination(args)
                       /\ client.APIServer = args.APIServer
                       /\ client.KubeConfig = args.KubeConfig
    /\ (pc # "decode" /\ ~AllowedCombination(args)) => (pc = "rejected" /\ client = DefaultClientArguments)
    /\ pc = "ready" => ~(client.APIServer # Nil /\ client.KubeConfig # "")

C11_Witness ==
    /\ pc = "ready"
    /\ args.APIServer # Nil
    /\ CustomHTTPClient(args)
    /\ calls # <<>>

\* C12: no field of a compiled output holds bytes read from a secret or a
\* config map: the TLS CA, certificate and key, the OAuth2 client secret and
\* the authorization credentials are file paths computed from (namespace,
\* kind, name, key), the same whatever the store answers; the one value
\* fetched and emitted inline is the OAuth2 client identifier.
RawValues ==
    {fs.secret.val : fs \in SecretAnswers} \cup {fs.configMap.val : fs \in SecretAnswers}

\* The path of a secret-or-config-map reference, "" when neither is set.
RefPath(ns, sel) ==
    IF sel.Secret # Nil THEN "secrets/" \o ns \o "/" \o sel.Secret[1].Name \o "/" \o sel.Secret[1].Key
    ELSE IF sel.ConfigMap # Nil
    THEN "configMaps/" \o ns \o "/" \o sel.ConfigMap[1].Name \o "/" \o sel.ConfigMap[1].Key
    ELSE ""

SecretPath(ns, ref) ==
    IF ref = Nil THEN "" ELSE "secrets/" \o ns \o "/" \o ref[1].Name \o "/" \o ref[1].Key

NoRawBytes(path) == path = "" \/ path \notin RawValues

C12_SecretsByPath ==
    \A k \in 1..Len(calls) :
        LET c == calls[k] IN
        /\ c.op = "generateSafeTLS" =>
              /\ c.out.CAFile = RefPath(m.Namespace, given.ep.TLSConfig[1].CA)
              /\ c.out.CertFile = RefPath(m.Namespace, given.ep.TLSConfig[1].Cert)
              /\ c.out.KeyFile = SecretPath(m.Namespace, given.ep.TLSConfig[1].KeySecret)
              /\ NoRawBytes(c.out.CAFile) /\ NoRawBytes(c.out.CertFile) /\ NoRawBytes(c.out.KeyFile)
        /\ (c.op = "generateOAuth2" /\ c.out # Nil) =>
              /\ c.out[1].ClientSecretFile =
                     SecretPath(m.Namespace, Ptr(given.ep.OAuth2[1].ClientSecret))
              /\ NoRawBytes(c.out[1].ClientSecretFile)
              /\ c.out[1].ClientID \in RawValues
        /\ (c.op = "generateSafeAuthorization" /\ c.out # Nil) =>
              /\ c.out[1].CredentialsFile =
                     SecretPath(m.Namespace, given.ep.Authorization[1].Credentials)
              /\ NoRawBytes(c.out[1].CredentialsFile)
        /\ (c.op = "generatePodMonitorConfig" /\ c.out.cfg # Nil) =>
              LET h == c.out.cfg[1].HTTPClientConfig IN
              /\ NoRawBytes(h.TLSConfig.CAFile) /\ NoRawBytes(h.TLSConfig.CertFile)
              /\ NoRawBytes(h.TLSConfig.KeyFile)
              /\ h.OAuth2 = Nil /\ h.Authorization = Nil

C12_Witness ==
    /\ \E k \in 1..Len(calls) :
          /\ calls[k].op = "generateSafeTLS"
          /\ calls[k].out.CAFile = "configMaps/operator/ca-cm/ca.crt"
          /\ calls[k].out.KeyFile = "secrets/operator/tls/tls.key"
    /\ \E k \in 1..Len(calls) :
          /\ calls[k].op = "generateOAuth2"
          /\ calls[k].out # Nil
          /\ calls[k].out[1].ClientID = "client-id"
          /\ calls[k].out[1].ClientSecretFile = "secrets/operator/oauth/secret"

\* C13: when fetching the OAuth2 client identifier fails, the build of that
\* endpoint's OAuth2 config is given up: no OAuth2 config is returned, and
\* one with an empty client identifier never is.
FetchErr ==
    IF given.ep.OAuth2 = Nil THEN ""
    ELSE IF given.ep.OAuth2[1].ClientID.Secret # Nil THEN secretfs.secret.err
    ELSE IF given.ep.OAuth2[1].ClientID.ConfigMap # Nil THEN secretfs.configMap.err
    ELSE ""

C13_FetchFailureAborts ==
    \A k \in 1..Len(calls) :
        calls[k].op = "generateOAuth2" =>
            /\ FetchErr # "" => calls[k].out = Nil
            /\ calls[k].out # Nil => calls[k].out[1].ClientID # ""

\* C14: an explicit rule whose regex does not parse makes the compilation
\* fail with an error; no rule is emitted for it with another regex in its
\* place, neither the empty one nor the match-all one.
BadRegexAt(cfgs) == {j \in 1..Len(cfgs) : cfgs[j].Regex \in {"("}}

C14_BadRegexFails ==
    \A k \in 1..Len(calls) :
        LET c == calls[k] IN
        (c.op \in {"addFromV1", "crds.addFromV1"} /\ BadRegexAt(c.arg) # {}) =>
            /\ c.op = "addFromV1" /\ c.out.err # ""
            /\ \A j \in BadRegexAt(c.arg) :
                  LET at == Len(c.r) + j IN
                  ~(/\ at <= Len(c.out.configs)
                    /\ c.out.configs[at].SourceLabels = c.arg[j].SourceLabels
                    /\ c.out.configs[at].Regex \in {"", "(.*)"})

\* C15: a pm builder returns an error exactly when the endpoint names a
\* credential source the generator does not implement (a TLS CA, client
\* certificate or client key, any OAuth2 block, any authorization block) and
\* no error, with nil for an absent OAuth2 or authorization block, otherwise;
\* a failure touches nothing else: whatever was compiled before, a builder
\* answers for an endpoint what its arguments alone determine.
UnsupportedTLS(tls) ==
    \/ tls.CA.Secret # <<>> \/ tls.CA.ConfigMap # <<>>
    \/ tls.Cert.Secret # <<>> \/ tls.Cert.ConfigMap # <<>>
    \/ tls.KeySecret # <<>>

C15_UnsupportedCredentials ==
    /\ client = DefaultClientArguments /\ m = Monitor0 /\ ep = Endpoint0
    /\ \A k \in 1..Len(calls) :
          LET c == calls[k] IN
          /\ c.op = "GenerateSafeTLS" =>
                /\ c.out.err # "" <=> UnsupportedTLS(c.arg)
                /\ c.out.err = "" =>
                      c.out.tc = [CAFile |-> "", CertFile |-> "", KeyFile |-> "",
                                  ServerName |-> c.arg.ServerName,
                                  InsecureSkipVerify |-> c.arg.InsecureSkipVerify]
          /\ c.op = "GenerateOAuth2" =>
                /\ c.out.err # "" <=> c.arg # <<>>
                /\ c.out.oa2 = <<>>
          /\ c.op = "GenerateSafeAuthorization" =>
                /\ c.out.err # "" <=> c.arg # <<>>
                /\ c.out.az = <<>>

C15_Witness ==
    \E k, l \in 1..Len(calls) :
        /\ k < l
        /\ calls[k].op = "GenerateSafeTLS" /\ calls[k].out.err # ""
        /\ calls[k].arg.KeySecret # <<>> /\ calls[k].arg.CA.Secret = <<>>
        /\ calls[l].op = "GenerateSafeTLS" /\ calls[l].out.err = ""
        /\ calls[l].ns # calls[k].ns
        /\ calls[l].out.tc.ServerName = "pods.example"

\* C17: the scrape config of an endpoint has interval 1 minute, timeout 10
\* seconds, path /metrics and scheme http wherever the endpoint leaves the
\* field unset; FollowRedirects is always true, and EnableHTTP2 is true
\* unless the endpoint sets HTTP/2 to false.
C17_Defaults ==
    \A k \in OkCompiles :
        LET cfg == calls[k].out.cfg[1] IN
        /\ given.ep.Interval = "" => cfg.ScrapeInterval = 60
        /\ given.ep.Interval = "30s" => cfg.ScrapeInterval = 30
        /\ given.ep.ScrapeTimeout = "" => cfg.ScrapeTimeout = 10
        /\ given.ep.ScrapeTimeout = "5s" => cfg.ScrapeTimeout = 5
        /\ given.ep.Path = "" => cfg.MetricsPath = "/metrics"
        /\ given.ep.Scheme = "" => cfg.Scheme = "http"
        /\ cfg.HTTPClientConfig.FollowRedirects = TRUE
        /\ cfg.HTTPClientConfig.EnableHTTP2 = (given.ep.EnableHttp2 # <<FALSE>>)

C17_Witness ==
    \E k \in OkCompiles :
        /\ given.ep.Interval = "" /\ given.ep.ScrapeTimeout = "5s"
        /\ given.ep.Path = "" /\ given.ep.Scheme = "https"
        /\ given.ep.EnableHttp2 = <<FALSE>>
        /\ calls[k].out.cfg[1].HTTPClientConfig.EnableHTTP2 = FALSE
        /\ calls[k].out.cfg[1].ScrapeInterval = 60

\* C16: compiling a monitor ends in one of two ways: no error and one
\* complete scrape config per endpoint, in endpoint order; or an error and no
\* scrape config at all. It fails exactly when one of its endpoints cannot
\* be compiled.
Uncompilable(e) ==
    \/ \E j \in 1..Len(e.RelabelConfigs) : e.RelabelConfigs[j].Regex = "("
    \/ \E j \in 1..Len(e.MetricRelabelConfigs) : e.MetricRelabelConfigs[j].Regex = "("
    \/ e.TLSConfig # <<>> /\ UnsupportedTLS(e.TLSConfig[1])
    \/ e.OAuth2 # <<>>
    \/ e.Authorization # <<>>

CompleteFor(cfg, e, idx) ==
    /\ cfg.JobName = "podMonitor/" \o m.Namespace \o "/" \o m.Name \o "/" \o ToString(idx)
    /\ Len(cfg.RelabelConfigs) >= 8 + Len(e.RelabelConfigs)
    /\ cfg.RelabelConfigs[Len(cfg.RelabelConfigs)].TargetLabel = "endpoint"
    /\ cfg.RelabelConfigs[Len(cfg.RelabelConfigs)].Replacement
          = (IF e.Port # "" THEN e.Port ELSE "8080")
    /\ Len(cfg.MetricRelabelConfigs) = Len(e.MetricRelabelConfigs)
    /\ Len(cfg.ServiceDiscoveryConfigs) = 1
    /\ cfg.ServiceDiscoveryConfigs[1].Role = "pod"
    /\ cfg.HTTPClientConfig.OAuth2 = <<>> /\ cfg.HTTPClientConfig.Authorization = <<>>

C18_Sanitize ==
    \A k \in 1..Len(calls) :
        calls[k].op = "sanitizeLabelName" =>
            LET name == calls[k].arg
                out == calls[k].out
            IN /\ Len(out) = Len(name)
               /\ \A i \in 1..Len(out) :
                     /\ out[i] \in LabelChars
                     /\ out[i] \notin {".", "/", "-"}
                     /\ out[i] = (IF name[i] \in {".", "/", "-"} THEN "_" ELSE name[i])
               /\ (\A i \in 1..Len(name) : name[i] \in LabelChars) => out = name
               /\ sanitizeLabelName(out) = out
               /\ Str(name) = "foo.bar/baz" => Str(out) = "foo_bar_baz"

C18_Witness ==
    \E k \in 1..Len(calls) :
        /\ calls[k].op = "sanitizeLabelName"
        /\ Str(calls[k].arg) = "foo.bar/baz"
        /\ Str(calls[k].out) = "foo_bar_baz"

\* C19: for a monitor with a job-label override L and an endpoint with no
\* explicit relabeling that targets job, applying the compiled chain in order
\* to a discovered target ends with job being the target's pod label L when
\* that label is not empty and <namespace>/<name> when it is absent or
\* empty; the override rule (regex (.+), replacement ${1}) is the last
\* implicit rule that writes job.
TargetsJob(rules) == {j \in 1..Len(rules) : rules[j].TargetLabel = "job"}

JobOverridden ==
    {k \in OkCompiles : given.m.JobLabel # <<>> /\ TargetsJob(given.ep.RelabelConfigs) = {}}

C19_JobLabelOverride ==
    \A k \in JobOverridden :
        LET chain == RelabelsOf(k)
            implicit == SubSeq(chain, 1, Len(chain) - Len(given.ep.RelabelConfigs) - 1)
            last == CHOOSE j \in TargetsJob(implicit) : \A i \in TargetsJob(implicit) : i <= j
        IN /\ implicit[last].SourceLabels = <<"__meta_kubernetes_pod_label_abc">>
           /\ implicit[last].Regex = "(.+)"
           /\ implicit[last].Replacement = "${1}"
           /\ \A t \in Targets :
                 LET r == Process(t, chain)
                     L == Get(t, "__meta_kubernetes_pod_label_abc")
                 IN /\ r.status # "panic"
                    /\ r.status = "kept" =>
                          Get(r.labels, "job") = (IF L # "" THEN L ELSE "operator/podmonitor")

\* C20: with a valid initial agent-management config, getRemoteConfig
\* returns what the cache read returns (the cached config and no error, or
\* the error of the cache read) whenever the fetch fails, the fetched bytes
\* do not load or the loaded config is invalid, and the freshly fetched
\* config only when fetch, load and validation all succeed.
ExpectedConfig(buf) ==
    IF buf = "server: {log_level: info}" THEN [LogLevel |-> "info", JobNames |-> <<>>]
    ELSE [LogLevel |-> "debug", JobNames |-> <<>>]

Loadable == {"server: {log_level: info}", "server: {log_level: debug}"}

ExpectedCacheRead(file) ==
    IF file # <<>> /\ file[1] \in Loadable
    THEN [cfg |-> <<ExpectedConfig(file[1])>>, err |-> ""]
    ELSE [cfg |-> <<>>, err |-> "error trying to load cached remote config from file"]

RemoteFailed ==
    \/ rc.fetched.err # ""
    \/ rc.fetched.bytes \notin Loadable

C20_FallbackToCache ==
    (rc.pc = "done" /\ rc.am = AgentManagement0) =>
        IF RemoteFailed
        THEN rc.ret = ExpectedCacheRead(rc.cacheFile)
        ELSE rc.ret = [cfg |-> <<ExpectedConfig(rc.fetched.bytes)>>, err |-> ""]

C20_Witness ==
    /\ rc.pc = "done"
    /\ rc.am = AgentManagement0
    /\ rc.runs = 2
    /\ rc.fetched.err = ""
    /\ rc.fetched.bytes = B_dup
    /\ rc.cacheFile = <<B_info>>
    /\ rc.ret = [cfg |-> <<Config0>>, err |-> ""]

\* C21: in a run of getRemoteConfig the cache is written at most once, and
\* only after the remote config was fetched, loaded and validated, with the
\* fetched bytes; with an invalid initial config, a failed fetch, bytes that
\* do not load or an invalid fetched config nothing is written and the cache
\* file stays as it was.
C21_WriteStep ==
    /\ rc.pc = "cache"
    /\ rc.writes = <<>>
    /\ rc.am = AgentManagement0
    /\ rc.fetched.err = ""
    /\ rc.fetched.bytes \in {"server: {log_level: info}", "server: {log_level: debug}"}
    /\ Len(rc'.writes) = 1
    /\ rc'.writes[1].bytes = rc.fetched.bytes
    /\ rc'.cacheFile # rc.cacheFile => rc'.writes[1].err # "" \/ rc'.cacheFile = <<rc.fetched.bytes>>
    /\ rc'.writes[1].err = "" => rc'.cacheFile = <<rc.fetched.bytes>>

C21_CacheWrittenOnce ==
    [][((rc'.writes # rc.writes /\ rc'.writes # <<>>) \/ rc'.cacheFile # rc.cacheFile)
          => C21_WriteStep]_vars

C21_Witness ==
    /\ rc.pc = "done"
    /\ rc.runs = 2
    /\ Len(rc.writes) = 1
    /\ rc.writes[1] = [bytes |-> B_info, err |-> ""]
    /\ rc.cacheFile = <<B_info>>
    /\ rc.ret = [cfg |-> <<Config0>>, err |-> ""]

\* C22: addFromV1 of the pm generator appends one converted rule per input
\* rule, in declaration order and with the source labels in their order, and
\* stops at the first rule whose regex does not parse: with an error for the
\* rule at position k the list has grown by the converted rules before k and
\* by nothing else; with no error it has grown by one rule per input rule;
\* the rules it held before are neither changed nor moved.
C22_Appended(c) ==
    IF BadRegexAt(c.arg) = {} THEN Len(c.arg)
    ELSE (CHOOSE j \in BadRegexAt(c.arg) : \A i \in BadRegexAt(c.arg) : j <= i) - 1

C22_AppendInOrder ==
    \A k \in 1..Len(calls) :
        LET c == calls[k] IN
        c.op = "addFromV1" =>
            /\ c.out.err # "" <=> BadRegexAt(c.arg) # {}
            /\ Len(c.out.configs) = Len(c.r) + C22_Appended(c)
            /\ \A i \in 1..Len(c.r) : c.out.configs[i] = c.r[i]
            /\ \A j \in 1..C22_Appended(c) :
                  c.out.configs[Len(c.r) + j] =
                      [SourceLabels |-> c.arg[j].SourceLabels,
                       Separator |-> c.arg[j].Separator,
                       TargetLabel |-> c.arg[j].TargetLabel,
                       Regex |-> c.arg[j].Regex,
                       Modulus |-> c.arg[j].Modulus,
                       Replacement |-> c.arg[j].Replacement,
                       Action |-> c.arg[j].Action]

C22_Witness ==
    \E k \in 1..Len(calls) :
        /\ calls[k].op = "addFromV1"
        /\ Len(calls[k].r) = 1
        /\ Len(calls[k].arg) = 3
        /\ calls[k].arg[2].Regex = "("
        /\ calls[k].out.err # ""
        /\ Len(calls[k].out.configs) = 2
        /\ calls[k].out.configs[2].Action = "labeldrop"

\* C23: for the fake client, in any interleaving of senders, Received() and
\* Stop(): Stop returns only after the client's goroutine has taken every
\* entry and ended, so that once Stop has returned the stored entries are
\* the entries whose send completed, in that order and once each, unless
\* Clear was called; the channel is closed once however many times Stop or
\* StopNow is called, and no close panics; writing into what Received()
\* returned does not change the stored entries.
Stored == fk.arrays[fk.received]

Stopped == {t \in Stoppers : fk.stoppers[t].pc \in {"onstop", "returned"}}

C23_FakeClient ==
    /\ fk.closes <= 1
    /\ \A t \in Stoppers : fk.stoppers[t].pc # "panicked"
    /\ Stopped # {} =>
          /\ fk.closes = 1
          /\ fk.recv.pc = "exited"
          /\ ~fk.cleared => Stored = fk.completed
    /\ \A i \in 1..Len(Stored) : Stored[i] # Scribble
    /\ ~fk.cleared =>
          /\ Len(Stored) <= Len(fk.completed)
          /\ \A i \in 1..Len(Stored) : Stored[i] = fk.completed[i]

C23_Witness ==
    /\ \A t \in Stoppers : fk.stoppers[t].pc = "returned"
    /\ \E t \in Stoppers : fk.stoppers[t].kind = "StopNow"
    /\ ~fk.cleared
    /\ Len(fk.completed) = 2
    /\ Stored = fk.completed
    /\ fk.reader.pc = "wrote"
    /\ Len(fk.arrays[fk.reader.cpy]) = 2

=============================================================================
